---- MODULE Spec2Model ----
(***************************************************************************)
(* A model of the passport-photo pipeline of PhotoMakerAI:                 *)
(*   config/passport_formats.py  PassportFormats        (format catalog)   *)
(*   utils/passport_utils.py     PassportPhotoFormatter (crop, format)     *)
(*   gui/main_window.py          PassportPhotoApp       (application state)*)
(*   utils/image_utils.py        ImageProcessor         (crop, file names) *)
(*   config/settings.py          Settings               (settings store)   *)
(*                                                                         *)
(* Arithmetic.  The Python code computes with doubles: target_ratio is     *)
(* width_px / height_px, face_percentage / 100.0 is a double and int()     *)
(* truncates toward zero.  The model keeps a ratio as a pair of integers   *)
(* (numerator, denominator) and a percentage as an integer number of       *)
(* percent, and computes every int(...) with exact rational arithmetic     *)
(* (Trunc).  On the value ranges used below the exact results and the      *)
(* double results coincide (compared by running the Python expressions on  *)
(* every value of the ranges).                                             *)
(***************************************************************************)
EXTENDS Integers, Sequences, FiniteSets, TLC

VARIABLES
    \* ---- one call of PassportPhotoFormatter._crop_to_passport_ratio ----
    image_size,        \* <<width, height>> of the source image (image.size)
    target_ratio,      \* <<n, d>>: the double n / d
    face_location,     \* NoFace, or <<top, right, bottom, left>>
    face_percentage,   \* face_percentage, in percent
    cropped_image,     \* NotRun, or the result of the call
    \* ---- PassportFormats (the catalog) ----
    formats,           \* self.formats: the dict, as its items in insertion order
    catalog_call,      \* the last call made on the catalog, with its result
    last_args,         \* history: per name, the arguments of its last add_custom_format
    \* ---- one call of PassportPhotoFormatter.format_passport_photo ----
    format_name,       \* the format_name argument
    formatted,         \* NotFormatted, or the outcome of the call
    \* ---- PassportPhotoApp (gui/main_window.py) ----
    current_image,     \* self.current_image: None or Some(image)
    processed_image,   \* self.processed_image
    passport_image,    \* self.passport_image
    face_locations,    \* self.face_locations: list of face boxes
    threads,           \* the worker threads that are running
    after_queue,       \* callbacks queued with root.after(0, ...), oldest first
    app_event,         \* the step taken last, with what it showed the user
    \* ---- one call of PassportPhotoFormatter.create_print_layout ----
    layout_photo,      \* <<width, height>> of the passport_image argument
    layout_type,       \* the layout_type argument
    fail_step,         \* the step of the call that raises: 0 the resize, k the
                       \* k-th paste, NoFailure none
    print_image,       \* NotTiled, or what the call returned
    \* ---- one call of ImageProcessor.crop_to_ratio ----
    ratio_cropped,     \* NotRun, or the result of the call on image_size, target_ratio
    \* ---- Settings (config/settings.py) ----
    default_settings,  \* self.default_settings: the dict, as a record
    settings,          \* self.settings
    recent_files_shared, \* settings["recent_files"] and default_settings["recent_files"]
                       \* are one and the same list object
    settings_call,     \* the last call made on the Settings object
    \* ---- ImageProcessor.get_next_filename in a directory ----
    directory,         \* the file names that exist in the directory
    counter,           \* the local variable counter of the running call
    filename_pc,       \* where the caller is: "idle", "searching", "returned", "raised"
    filename_result    \* the file_path returned last, and the error raised last

cropVars == <<image_size, target_ratio, face_location, face_percentage, cropped_image>>

catalogVars == <<formats, catalog_call, last_args>>

formatterVars == <<format_name, formatted>>

appVars == <<current_image, processed_image, passport_image, face_locations,
             threads, after_queue, app_event>>

layoutVars == <<layout_photo, layout_type, fail_step, print_image>>

ratioVars == <<ratio_cropped>>

settingsVars == <<default_settings, settings, recent_files_shared, settings_call>>

filenameVars == <<directory, counter, filename_pc, filename_result>>

vars == <<cropVars, catalogVars, formatterVars, appVars, layoutVars, ratioVars,
          settingsVars, filenameVars>>

----------------------------------------------------------------------------
(* Python values *)

\* Python's None; an optional value is None or Some(v)
None == <<>>

Some(v) == <<v>>

\* face_location = None (no face detected): falsy, like the empty tuple
NoFace == None

\* The call has not been made yet.
NotRun == [box |-> <<>>, failed |-> FALSE]

Abs(x) == IF x >= 0 THEN x ELSE -x

Min(a, b) == IF a <= b THEN a ELSE b

Max(a, b) == IF a >= b THEN a ELSE b

\* Python int(n / d) for a double quotient n / d, d # 0: truncation toward zero.
Trunc(n, d) ==
    IF (n >= 0) = (d > 0) THEN Abs(n) \div Abs(d) ELSE -(Abs(n) \div Abs(d))

\* Python n // d on integers, d > 0: floor division.
FloorDiv(n, d) == n \div d

----------------------------------------------------------------------------
(* PIL.Image.crop: the box (left, upper, right, lower) applied to an image. *)
(* Pillow raises ValueError when right < left or lower < upper; an empty   *)
(* box (right = left or lower = upper) gives an image with a zero side.    *)

CropRaises(box) == box[3] < box[1] \/ box[4] < box[2]

\* What _crop_to_passport_ratio returns: the cropped image, described by the
\* box that was cut out of the source, or (failed) the source image itself.
Cropped(box) == [box |-> box, failed |-> CropRaises(box)]

\* except Exception: logger.error(...); return image
Uncropped(width, height) == [box |-> <<0, 0, width, height>>, failed |-> TRUE]

\* scale_factor < 1, where
\* scale_factor = (new_height * face_percentage / 100.0) / face_height
ScaleFactorBelowOne(new_height, pct, face_height) ==
    IF face_height > 0 THEN new_height * pct < 100 * face_height
                       ELSE new_height * pct > 100 * face_height

\* the face branch with the window centred on the image, whatever the face
crop_with_face_unplaced(width, height, rn, rd, face, pct) ==
    LET face_height == face[3] - face[1]
    IN  IF width * rd > rn * height
        THEN LET new_width == Trunc(height * rn, rd)
                 left_crop == FloorDiv(width - new_width, 2)
             IN  Cropped(<<left_crop, 0, left_crop + new_width, height>>)
        ELSE IF rn = 0 \/ face_height = 0
             THEN Uncropped(width, height)
             ELSE LET ratio_height == Trunc(width * rd, rn)
                      grow == ScaleFactorBelowOne(ratio_height, pct, face_height)
                  IN  IF grow /\ pct = 0
                      THEN Uncropped(width, height)
                      ELSE LET new_height ==
                                   IF grow
                                   THEN Min(Trunc(face_height * 100, pct), height)
                                   ELSE ratio_height
                               top_crop == FloorDiv(height - new_height, 2)
                           IN  Cropped(<<0, top_crop, width, top_crop + new_height>>)

\* _crop_to_passport_ratio, face branch (face_location is truthy)
crop_with_face(width, height, rn, rd, face, pct) ==
    LET top == face[1]
        right == face[2]
        bottom == face[3]
        left == face[4]
        face_center_x == FloorDiv(left + right, 2)
        face_center_y == FloorDiv(top + bottom, 2)
        face_height == bottom - top
    IN  IF width * rd > rn * height      \* current_ratio > target_ratio
        THEN LET new_width == Trunc(height * rn, rd)
                 left_crop == Max(0, Min(face_center_x - FloorDiv(new_width, 2),
                                         width - new_width))
             IN  Cropped(<<left_crop, 0, left_crop + new_width, height>>)
        ELSE IF rn = 0 \/ face_height = 0
             THEN Uncropped(width, height)              \* ZeroDivisionError
             ELSE LET ratio_height == Trunc(width * rd, rn)
                      grow == ScaleFactorBelowOne(ratio_height, pct, face_height)
                  IN  IF grow /\ pct = 0
                      THEN Uncropped(width, height)     \* ZeroDivisionError
                      ELSE LET new_height ==
                                   IF grow
                                   THEN Min(Trunc(face_height * 100, pct), height)
                                   ELSE ratio_height
                               \* int(new_height * 0.25 + face_height / 2)
                               offset == Trunc(new_height + 2 * face_height, 4)
                               top_crop == Max(0, Min(face_center_y - offset,
                                                      height - new_height))
                           IN  Cropped(<<0, top_crop, width, top_crop + new_height>>)

\* crop_centered with the window anchored at the far edge instead of centred
crop_centered_anchored(width, height, rn, rd) ==
    IF width * rd > rn * height
    THEN LET new_width == Trunc(height * rn, rd)
             left_crop == width - new_width
         IN  Cropped(<<left_crop, 0, left_crop + new_width, height>>)
    ELSE IF rn = 0
         THEN Uncropped(width, height)
         ELSE LET new_height == Trunc(width * rd, rn)
                  top_crop == height - new_height
              IN  Cropped(<<0, top_crop, width, top_crop + new_height>>)

\* crop_centered that trims one more pixel row and column where it can
crop_centered_inset(width, height, rn, rd) ==
    IF width * rd > rn * height
    THEN LET new_width == Trunc(height * rn, rd)
             left_crop == FloorDiv(width - new_width, 2)
         IN  Cropped(<<left_crop, 0, left_crop + new_width, Max(height - 1, 0)>>)
    ELSE IF rn = 0
         THEN Uncropped(width, height)
         ELSE LET new_height == Trunc(width * rd, rn)
                  top_crop == FloorDiv(height - new_height, 2)
              IN  Cropped(<<0, top_crop, Max(width - 1, 0), top_crop + new_height>>)

\* _crop_to_passport_ratio, standard centre crop (no face)
crop_centered(width, height, rn, rd) ==
    IF width * rd > rn * height
    THEN LET new_width == Trunc(height * rn, rd)
             left_crop == FloorDiv(width - new_width, 2)
         IN  Cropped(<<left_crop, 0, left_crop + new_width, height>>)
    ELSE IF rn = 0
         THEN Uncropped(width, height)
         ELSE LET new_height == Trunc(width * rd, rn)
                  top_crop == FloorDiv(height - new_height, 2)
              IN  Cropped(<<0, top_crop, width, top_crop + new_height>>)

\* _crop_to_passport_ratio that never looks at the face box
crop_to_passport_ratio_faceless(width, height, rn, rd, face, pct) ==
    LET r == crop_centered(width, height, rn, rd)
    IN  IF r.failed THEN Uncropped(width, height) ELSE r

\* PassportPhotoFormatter._crop_to_passport_ratio(image, target_ratio,
\* face_location, face_percentage) on an image of size (width, height) and
\* target_ratio = rn / rd (rd > 0).
crop_to_passport_ratio(width, height, rn, rd, face, pct) ==
    LET r == IF face # NoFace
             THEN crop_with_face(width, height, rn, rd, face, pct)
             ELSE crop_centered(width, height, rn, rd)
    IN  IF r.failed THEN Uncropped(width, height) ELSE r

----------------------------------------------------------------------------
(* PassportFormats: config/passport_formats.py *)

\* One value of the formats dict.  width_inch and height_inch are kept as
\* <<numerator, denominator>>; description as the tuple of its parts.
FormatSpecs(wmm, hmm, winch, hinch, wpx, hpx, dpi, description) ==
    [width_mm |-> wmm, height_mm |-> hmm,
     width_inch |-> winch, height_inch |-> hinch,
     width_px |-> wpx, height_px |-> hpx,
     dpi |-> dpi, description |-> description]

Item(name, specs) == [name |-> name, specs |-> specs]

\* PassportFormats.__init__: the fifteen built-in formats, in declaration order
BuiltinFormats == <<
    Item("US Passport", FormatSpecs(51, 51, <<200, 100>>, <<200, 100>>, 600, 600, 300,
         <<"US Passport photo - 2x2 inches">>)),
    Item("UK Passport", FormatSpecs(35, 45, <<138, 100>>, <<177, 100>>, 413, 531, 300,
         <<"UK Passport photo - 35x45mm">>)),
    Item("EU Passport", FormatSpecs(35, 45, <<138, 100>>, <<177, 100>>, 413, 531, 300,
         <<"EU Passport photo - 35x45mm">>)),
    Item("Canadian Passport", FormatSpecs(50, 70, <<197, 100>>, <<276, 100>>, 591, 827, 300,
         <<"Canadian Passport photo - 50x70mm">>)),
    Item("Australian Passport", FormatSpecs(35, 45, <<138, 100>>, <<177, 100>>, 413, 531, 300,
         <<"Australian Passport photo - 35x45mm">>)),
    Item("Indian Passport", FormatSpecs(35, 35, <<138, 100>>, <<138, 100>>, 413, 413, 300,
         <<"Indian Passport photo - 35x35mm">>)),
    Item("Chinese Passport", FormatSpecs(33, 48, <<130, 100>>, <<189, 100>>, 390, 567, 300,
         <<"Chinese Passport photo - 33x48mm">>)),
    Item("Japanese Passport", FormatSpecs(35, 45, <<138, 100>>, <<177, 100>>, 413, 531, 300,
         <<"Japanese Passport photo - 35x45mm">>)),
    Item("Brazilian Passport", FormatSpecs(30, 40, <<118, 100>>, <<157, 100>>, 354, 472, 300,
         <<"Brazilian Passport photo - 30x40mm">>)),
    Item("Mexican Passport", FormatSpecs(39, 31, <<154, 100>>, <<122, 100>>, 461, 366, 300,
         <<"Mexican Passport photo - 39x31mm">>)),
    Item("Russian Passport", FormatSpecs(35, 45, <<138, 100>>, <<177, 100>>, 413, 531, 300,
         <<"Russian Passport photo - 35x45mm">>)),
    Item("South African Passport", FormatSpecs(35, 45, <<138, 100>>, <<177, 100>>, 413, 531, 300,
         <<"South African Passport photo - 35x45mm">>)),
    Item("US Visa", FormatSpecs(51, 51, <<200, 100>>, <<200, 100>>, 600, 600, 300,
         <<"US Visa photo - 2x2 inches">>)),
    Item("Schengen Visa", FormatSpecs(35, 45, <<138, 100>>, <<177, 100>>, 413, 531, 300,
         <<"Schengen Visa photo - 35x45mm">>)),
    Item("ID Card", FormatSpecs(25, 35, <<98, 100>>, <<138, 100>>, 295, 413, 300,
         <<"Standard ID Card photo - 25x35mm">>)) >>

BuiltinNames == {BuiltinFormats[i].name : i \in DOMAIN BuiltinFormats}

\* the position of key `name` in the dict, 0 when it is not a key
IndexOf(fmts, name) ==
    IF \E i \in DOMAIN fmts : fmts[i].name = name
    THEN CHOOSE i \in DOMAIN fmts : fmts[i].name = name
    ELSE 0

\* get_format answering a default entry for an unknown name
get_format_defaulting(fmts, name) ==
    IF IndexOf(fmts, name) = 0 THEN Some(fmts[1].specs)
                               ELSE Some(fmts[IndexOf(fmts, name)].specs)

\* PassportFormats.get_format: self.formats.get(format_name)
get_format(fmts, name) ==
    IF IndexOf(fmts, name) = 0 THEN None
                               ELSE Some(fmts[IndexOf(fmts, name)].specs)

\* the dict after get_format: dict.get inserts nothing
formats_after_get(fmts, name) == fmts

\* custom_specs with the pixel sizes rounded down (math.floor) instead of int()
custom_specs_floored(width_mm, height_mm, dpi) ==
    LET width_inch == <<width_mm * 10, 254>>
        height_inch == <<height_mm * 10, 254>>
        width_px == (width_inch[1] * dpi) \div width_inch[2]
        height_px == (height_inch[1] * dpi) \div height_inch[2]
    IN  FormatSpecs(width_mm, height_mm, width_inch, height_inch,
                    width_px, height_px, dpi,
                    <<"Custom format - ", width_mm, "x", height_mm, "mm">>)

\* custom_specs with each pixel size computed from the other side's millimetres
custom_specs_transposed(width_mm, height_mm, dpi) ==
    LET width_inch == <<width_mm * 10, 254>>
        height_inch == <<height_mm * 10, 254>>
        width_px == Trunc(height_inch[1] * dpi, height_inch[2])
        height_px == Trunc(width_inch[1] * dpi, width_inch[2])
    IN  FormatSpecs(width_mm, height_mm, width_inch, height_inch,
                    width_px, height_px, dpi,
                    <<"Custom format - ", width_mm, "x", height_mm, "mm">>)

\* the entry add_custom_format builds from its arguments
custom_specs(width_mm, height_mm, dpi) ==
    LET \* width_inch = width_mm / 25.4
        width_inch == <<width_mm * 10, 254>>
        height_inch == <<height_mm * 10, 254>>
        \* width_px = int(width_inch * dpi)
        width_px == Trunc(width_inch[1] * dpi, width_inch[2])
        height_px == Trunc(height_inch[1] * dpi, height_inch[2])
    IN  FormatSpecs(width_mm, height_mm, width_inch, height_inch,
                    width_px, height_px, dpi,
                    <<"Custom format - ", width_mm, "x", height_mm, "mm">>)

\* PassportFormats.get_all_format_names: list(self.formats.keys())
get_all_format_names(fmts) == [i \in DOMAIN fmts |-> fmts[i].name]

\* the items of the dict without the one stored under name
WithoutName(fmts, name) == SelectSeq(fmts, LAMBDA item : item.name # name)

\* add_custom_format that deletes the key before it stores the entry, so that
\* a registered name moves to the end of the dict
add_custom_format_moving(fmts, name, width_mm, height_mm, dpi) ==
    Append(WithoutName(fmts, name), Item(name, custom_specs(width_mm, height_mm, dpi)))

\* PassportFormats.validate_format(format_specs) for a dict that has the five
\* required fields with numeric values: False at the first field that is <= 0
validate_format(format_specs) ==
    /\ format_specs.width_mm > 0
    /\ format_specs.height_mm > 0
    /\ format_specs.width_px > 0
    /\ format_specs.height_px > 0
    /\ format_specs.dpi > 0

\* add_custom_format that validates the entry and stores it only when valid
add_custom_format_validating(fmts, name, width_mm, height_mm, dpi) ==
    IF ~validate_format(custom_specs(width_mm, height_mm, dpi))
    THEN fmts
    ELSE IF IndexOf(fmts, name) = 0
         THEN Append(fmts, Item(name, custom_specs(width_mm, height_mm, dpi)))
         ELSE [fmts EXCEPT ![IndexOf(fmts, name)].specs =
                               custom_specs(width_mm, height_mm, dpi)]

\* PassportFormats.add_custom_format: self.formats[name] = {...}
\* (a new key goes to the end of the dict, an existing key keeps its place)
add_custom_format(fmts, name, width_mm, height_mm, dpi) ==
    IF IndexOf(fmts, name) = 0
    THEN Append(fmts, Item(name, custom_specs(width_mm, height_mm, dpi)))
    ELSE [fmts EXCEPT ![IndexOf(fmts, name)].specs =
                          custom_specs(width_mm, height_mm, dpi)]

----------------------------------------------------------------------------
(* PassportPhotoFormatter.format_passport_photo: utils/passport_utils.py *)

\* the call raised: the exception is logged and re-raised to the caller
Raised(error) == [status |-> "raised", size |-> <<>>, error |-> error,
                  cropped |-> NotRun]

\* the call returned a photo of this size, made from this crop
Returned(size, cropped) == [status |-> "returned", size |-> size, error |-> "",
                            cropped |-> cropped]

\* _apply_passport_guidelines: ImageProcessor.enhance_image changes pixel
\* values only; on an exception the image is returned as it is.
apply_passport_guidelines(size) == size

\* format_passport_photo that resizes to the size of the cropped image
format_passport_photo_unresized(fmts, width, height, name, face, pct, empty_raises) ==
    LET found == get_format(fmts, name)
    IN  IF found = None
        THEN Raised("ValueError")
        ELSE LET width_px == found[1].width_px
                 height_px == found[1].height_px
             IN  IF height_px = 0
                 THEN Raised("ZeroDivisionError")
                 ELSE LET rn == IF height_px > 0 THEN width_px ELSE -width_px
                          rd == Abs(height_px)
                          cropped == crop_to_passport_ratio(width, height, rn, rd,
                                                            face, pct)
                          crop_width == cropped.box[3] - cropped.box[1]
                          crop_height == cropped.box[4] - cropped.box[2]
                      IN  IF width_px <= 0 \/ height_px <= 0
                          THEN Raised("ValueError")
                          ELSE Returned(<<crop_width, crop_height>>, cropped)

\* PassportPhotoFormatter.format_passport_photo(image, format_name,
\* face_location, face_percentage) on an image of size (width, height).
\* cropped_image.resize((width_px, height_px)) raises ValueError for a target
\* side <= 0; what Pillow does with a cropped image that has a zero side is
\* left open: empty_raises says whether that resize raises.
format_passport_photo(fmts, width, height, name, face, pct, empty_raises) ==
    LET found == get_format(fmts, name)
    IN  IF found = None
        THEN Raised("ValueError")                \* Unknown passport format
        ELSE LET width_px == found[1].width_px
                 height_px == found[1].height_px
             IN  IF height_px = 0
                 THEN Raised("ZeroDivisionError")    \* width_px / height_px
                 ELSE LET \* target_ratio = width_px / height_px, as rn / rd, rd > 0
                          rn == IF height_px > 0 THEN width_px ELSE -width_px
                          rd == Abs(height_px)
                          cropped == crop_to_passport_ratio(width, height, rn, rd,
                                                            face, pct)
                          crop_width == cropped.box[3] - cropped.box[1]
                          crop_height == cropped.box[4] - cropped.box[2]
                      IN  IF width_px <= 0 \/ height_px <= 0
                          THEN Raised("ValueError")  \* resize: sides must be > 0
                          ELSE IF (crop_width = 0 \/ crop_height = 0) /\ empty_raises
                          THEN Raised("ValueError")
                          ELSE Returned(apply_passport_guidelines(<<width_px, height_px>>),
                                        cropped)

----------------------------------------------------------------------------
(* PassportPhotoFormatter.create_print_layout: utils/passport_utils.py *)

\* the layouts dict: grid is (grid_cols, grid_rows), size the canvas
layouts ==
    [l \in {"2x2", "4x6", "wallet"} |->
        CASE l = "2x2" -> [grid |-> <<2, 2>>, size |-> <<600, 600>>, spacing |-> 10]
          [] l = "4x6" -> [grid |-> <<4, 6>>, size |-> <<1200, 1800>>, spacing |-> 15]
          [] l = "wallet" -> [grid |-> <<2, 4>>, size |-> <<600, 900>>, spacing |-> 10]]

\* a fallback to the wallet layout
resolve_layout_type_wallet(type) ==
    IF type \notin DOMAIN layouts THEN "wallet" ELSE type

\* if layout_type not in layouts: layout_type = "2x2"
resolve_layout_type(type) ==
    IF type \notin DOMAIN layouts THEN "2x2" ELSE type

\* the photo size with the spacing left out of the division
photo_size_unspaced(layout) ==
    <<FloorDiv(layout.size[1], layout.grid[1]), FloorDiv(layout.size[2], layout.grid[2])>>

\* <<photo_width, photo_height>>: the size of one copy within the layout
photo_size(layout) ==
    <<FloorDiv(layout.size[1] - layout.spacing * (layout.grid[1] + 1), layout.grid[1]),
      FloorDiv(layout.size[2] - layout.spacing * (layout.grid[2] + 1), layout.grid[2])>>

\* the paste position with the roles of row and col exchanged
paste_position_transposed(layout, row, col) ==
    <<layout.spacing + row * (photo_size(layout)[1] + layout.spacing),
      layout.spacing + col * (photo_size(layout)[2] + layout.spacing)>>

\* (x, y) of the copy in grid cell (row, col)
paste_position(layout, row, col) ==
    <<layout.spacing + col * (photo_size(layout)[1] + layout.spacing),
      layout.spacing + row * (photo_size(layout)[2] + layout.spacing)>>

\* for row in range(grid_rows): for col in range(grid_cols):
\*     layout_image.paste(resized_photo, (x, y))
\* the pastes in the order they are made, each with the size of the image
\* pasted and its position
pastes_of(layout) ==
    [k \in 1..(layout.grid[1] * layout.grid[2]) |->
        [image |-> photo_size(layout),
         at |-> paste_position(layout, (k - 1) \div layout.grid[1],
                               (k - 1) % layout.grid[1])]]

\* no step of the call raises
NoFailure == -1

\* the call has not been made
NotTiled == [kind |-> "none", size |-> <<>>, pastes |-> <<>>]

\* return layout_image: the canvas with its pastes
LayoutImage(layout) == [kind |-> "layout", size |-> layout.size, pastes |-> pastes_of(layout)]

\* except Exception: return passport_image: the photo that was passed in
OriginalPhoto(photo) == [kind |-> "photo", size |-> photo, pastes |-> <<>>]

\* create_print_layout that returns the canvas as painted so far when a paste
\* raises
create_print_layout_partial(photo, type, failing) ==
    LET layout == layouts[resolve_layout_type(type)]
    IN  IF failing = 0
        THEN OriginalPhoto(photo)
        ELSE IF failing \in 1..Len(pastes_of(layout))
        THEN [kind |-> "layout", size |-> layout.size,
              pastes |-> SubSeq(pastes_of(layout), 1, failing - 1)]
        ELSE LayoutImage(layout)

\* PassportPhotoFormatter.create_print_layout(passport_image, layout_type) on
\* a photo of size `photo`; `failing` is the step that raises: 0 the resize,
\* k the k-th paste, any other value none.
create_print_layout(photo, type, failing) ==
    LET layout == layouts[resolve_layout_type(type)]
    IN  IF failing \in 0..Len(pastes_of(layout))
        THEN OriginalPhoto(photo)
        ELSE LayoutImage(layout)

----------------------------------------------------------------------------
(* ImageProcessor: utils/image_utils.py *)

\* ImageProcessor.crop_to_ratio(image, ratio) on an image of size (width,
\* height) and ratio = rn / rd (rd > 0): the centred crop, or (except
\* Exception: return image) the image itself
crop_to_ratio(width, height, rn, rd) ==
    LET cropped ==
            IF width * rd > rn * height
            THEN LET new_width == Trunc(height * rn, rd)
                     left == FloorDiv(width - new_width, 2)
                 IN  Cropped(<<left, 0, left + new_width, height>>)
            ELSE IF rn = 0
                 THEN Uncropped(width, height)
                 ELSE LET new_height == Trunc(width * rd, rn)
                          top == FloorDiv(height - new_height, 2)
                      IN  Cropped(<<0, top, width, top + new_height>>)
    IN  IF cropped.failed THEN Uncropped(width, height) ELSE cropped

\* the decimal digits of n >= 0, most significant first
RECURSIVE Digits(_)
Digits(n) == IF n < 10 THEN <<n>> ELSE Append(Digits(n \div 10), n % 10)

\* f"{counter:03d}": the digits of counter, padded with zeros to three
Format03d(n) ==
    LET digits == Digits(n)
    IN  [i \in 1..(3 - Len(digits)) |-> 0] \o digits

\* os.path.join(directory, f"{base_name}_{counter:03d}{extension}")
FilePath(base_name, number, extension) ==
    [base_name |-> base_name, number |-> number, extension |-> extension]

----------------------------------------------------------------------------
(* Settings: config/settings.py *)

DefaultImageQuality == 95

DefaultMaxRecentFiles == 10

\* Settings.__init__: self.default_settings, its keys image_quality,
\* recent_files and max_recent_files
InitialDefaults ==
    [image_quality |-> DefaultImageQuality,
     recent_files |-> <<>>,
     max_recent_files |-> DefaultMaxRecentFiles]

\* A dict read from a JSON file: per key None (the key is absent) or
\* Some(value)
Dict(image_quality, recent_files_value, max_recent_files) ==
    [image_quality |-> image_quality,
     recent_files |-> recent_files_value,
     max_recent_files |-> max_recent_files]

\* A file: missing, not readable as JSON, or holding a dict
File(exists, readable, content) ==
    [exists |-> exists, readable |-> readable, content |-> content]

\* The Settings object: the two dicts, and whether their "recent_files"
\* entries refer to one list object (dict.copy() is shallow)
Store(defaults, current, shared) ==
    [default_settings |-> defaults, settings |-> current, shared |-> shared]

\* self.default_settings.copy()
copy_of_defaults(store) ==
    Store(store.default_settings, store.default_settings, TRUE)

\* self.settings.update(loaded): every key of loaded gets the loaded value,
\* a list read from the file being a new object
update(store, loaded) ==
    Store(store.default_settings,
          [key \in DOMAIN store.settings |->
              IF loaded[key] = None THEN store.settings[key] ELSE loaded[key][1]],
          store.shared /\ loaded.recent_files = None)

\* Settings.load_settings()
load_settings(store, file) ==
    IF file.exists /\ file.readable
    THEN update(copy_of_defaults(store), file.content)
    ELSE copy_of_defaults(store)

\* Settings.set(key, value), value a new object
set(store, key, value) ==
    Store(store.default_settings,
          [store.settings EXCEPT ![key] = value],
          store.shared /\ key # "recent_files")

\* list.remove(x): removes the first occurrence of x
RECURSIVE remove(_, _)
remove(list, x) ==
    IF list = <<>> THEN <<>>
    ELSE IF Head(list) = x THEN Tail(list)
    ELSE <<Head(list)>> \o remove(Tail(list), x)

\* list[:n], n >= 0
Slice(list, n) == SubSeq(list, 1, Min(n, Len(list)))

\* Settings.add_recent_file(file_path): recent_files is the list object held
\* by self.settings; remove and insert change that object in place; the
\* slice is a new list, which set stores
add_recent_file(store, file_path) ==
    LET recent_files == store.settings.recent_files
        removed == IF \E i \in DOMAIN recent_files : recent_files[i] = file_path
                   THEN remove(recent_files, file_path)
                   ELSE recent_files
        inserted == <<file_path>> \o removed
        max_files == store.settings.max_recent_files
        in_place == Store(IF store.shared
                          THEN [store.default_settings EXCEPT !.recent_files = inserted]
                          ELSE store.default_settings,
                          [store.settings EXCEPT !.recent_files = inserted],
                          store.shared)
    IN  set(in_place, "recent_files", Slice(inserted, max_files))

\* Settings.clear_recent_files()
clear_recent_files(store) == set(store, "recent_files", <<>>)

\* Settings.reset_to_defaults()
reset_to_defaults(store) == copy_of_defaults(store)

\* Settings.import_settings(file_path)
import_settings(store, file) ==
    IF file.exists /\ file.readable THEN update(store, file.content) ELSE store

----------------------------------------------------------------------------
(* Bounds of the crop-planning specification *)

MaxWidth == 5

MaxHeight == 6

MaxRatio == 3

MaxFaceWidth == 2

\* The face-size slider of the control panel: ttk.Scale(from_=50.0, to=80.0)
MinFacePercentage == 50

MaxFacePercentage == 80

DefaultFacePercentage == 65

FacePercentages == {MinFacePercentage, 60, DefaultFacePercentage, 75, MaxFacePercentage}

Gcd(a, b) == CHOOSE g \in 1..Min(a, b) :
                /\ a % g = 0 /\ b % g = 0
                /\ \A k \in (g + 1)..Min(a, b) : ~(a % k = 0 /\ b % k = 0)

\* target ratios n / d > 0 in lowest terms
Ratios == {r \in (1..MaxRatio) \X (1..MaxRatio) : Gcd(r[1], r[2]) = 1}

\* Face boxes <<top, right, bottom, left>> for images of at most mw x mh
\* pixels, with right > left and bottom >= top (bottom = top is a degenerate
\* box of zero height); a box may extend beyond the image by one pixel on
\* every side.
FaceBoxesIn(mw, mh) ==
    {f \in (-1..(mh + 1)) \X (-1..(mw + 1)) \X (-1..(mh + 1)) \X (-1..(mw + 1)) :
        /\ f[3] >= f[1]
        /\ f[2] > f[4]
        /\ f[2] - f[4] <= MaxFaceWidth}

FaceBoxes == FaceBoxesIn(MaxWidth, MaxHeight)

\* ---- values of the variables a specification does not use ----

NoCall == [op |-> "none", name |-> "", result |-> None]

NotFormatted == [status |-> "not run", size |-> <<>>, error |-> "", cropped |-> NotRun]

\* Names looked up or added in the catalog specification: two names free for
\* custom formats, built-in names, a name that differs from a built-in name
\* in case only, and a name that is no format.
CustomNames == {"X", "US Passport"}

LookupNames == CustomNames \cup {"UK Passport", "ID Card", "us passport", "Not A Format"}

\* Names added in the specification of the name list: two names that are
\* free for custom formats and a built-in name.
ListedCustomNames == {"X", "Y", "US Passport"}

AllNames == BuiltinNames \cup LookupNames \cup ListedCustomNames

IdleCrop ==
    /\ image_size = <<1, 1>>
    /\ target_ratio = <<1, 1>>
    /\ face_location = NoFace
    /\ face_percentage = DefaultFacePercentage
    /\ cropped_image = NotRun

IdleCatalog ==
    /\ formats = BuiltinFormats
    /\ catalog_call = NoCall
    /\ last_args = [n \in AllNames |-> None]

IdleFormatter ==
    /\ format_name = "US Passport"
    /\ formatted = NotFormatted

NoEvent == [op |-> "none", shown |-> "", format_name |-> "", photo |-> None]

\* PassportPhotoApp.__init__: the application state
IdleApp ==
    /\ current_image = None
    /\ processed_image = None
    /\ passport_image = None
    /\ face_locations = <<>>
    /\ threads = <<>>
    /\ after_queue = <<>>
    /\ app_event = NoEvent

IdleLayout ==
    /\ layout_photo = <<1, 1>>
    /\ layout_type = "2x2"
    /\ fail_step = NoFailure
    /\ print_image = NotTiled

IdleRatio == ratio_cropped = NotRun

NoSettingsCall == [op |-> "none", result |-> TRUE]

IdleSettings ==
    /\ default_settings = InitialDefaults
    /\ settings = InitialDefaults
    /\ recent_files_shared = TRUE
    /\ settings_call = NoSettingsCall

NoResult == [file_path |-> None, error |-> ""]

IdleFilename ==
    /\ directory = {}
    /\ counter = 0
    /\ filename_pc = "idle"
    /\ filename_result = NoResult

----------------------------------------------------------------------------
(* Specification Spec: one call of _crop_to_passport_ratio *)

InitCrop ==
    /\ image_size \in (1..MaxWidth) \X (1..MaxHeight)
    /\ target_ratio \in Ratios
    /\ face_location \in FaceBoxes \cup {NoFace}
    /\ face_percentage \in FacePercentages
    /\ cropped_image = NotRun
    /\ IdleCatalog
    /\ IdleFormatter
    /\ IdleApp
    /\ IdleRatio
    /\ IdleSettings
    /\ IdleFilename
    /\ IdleLayout

\* cropped_image = self._crop_to_passport_ratio(image, target_ratio,
\*                                             face_location, face_percentage)
CropToPassportRatio ==
    /\ cropped_image = NotRun
    /\ cropped_image' = crop_to_passport_ratio(image_size[1], image_size[2],
                            target_ratio[1], target_ratio[2],
                            face_location, face_percentage)
    /\ UNCHANGED <<image_size, target_ratio, face_location, face_percentage>>
    /\ UNCHANGED <<catalogVars, formatterVars, appVars, layoutVars,
                   ratioVars, settingsVars, filenameVars>>

NextCrop == CropToPassportRatio

Spec == InitCrop /\ [][NextCrop]_vars

----------------------------------------------------------------------------
(* Specification SpecPercentage: one call of _crop_to_passport_ratio with a *)
(* face box of positive height and a face_percentage outside the range of   *)
(* the slider                                                               *)

\* nothing in the formatter restricts face_percentage to the slider's range
OutOfRangePercentages == {-65, 0, MinFacePercentage - 1, MaxFacePercentage + 1, 100, 200}

InitPercentage ==
    /\ image_size \in (1..MaxWidth) \X (1..MaxHeight)
    /\ target_ratio \in Ratios
    /\ face_location \in {f \in FaceBoxes : f[3] > f[1]}
    /\ face_percentage \in OutOfRangePercentages
    /\ cropped_image = NotRun
    /\ IdleCatalog
    /\ IdleFormatter
    /\ IdleApp
    /\ IdleRatio
    /\ IdleSettings
    /\ IdleFilename
    /\ IdleLayout

NextPercentage == CropToPassportRatio

SpecPercentage == InitPercentage /\ [][NextPercentage]_vars

----------------------------------------------------------------------------
(* Specification SpecCropToRatio: ImageProcessor.crop_to_ratio and          *)
(* _crop_to_passport_ratio without a face box, called on the same image     *)
(* with the same ratio                                                      *)

InitCropToRatio ==
    /\ image_size \in (1..MaxWidth) \X (1..MaxHeight)
    /\ target_ratio \in Ratios
    /\ face_location = NoFace
    /\ face_percentage \in FacePercentages \cup OutOfRangePercentages
    /\ cropped_image = NotRun
    /\ ratio_cropped = NotRun
    /\ IdleCatalog
    /\ IdleFormatter
    /\ IdleApp
    /\ IdleLayout
    /\ IdleSettings
    /\ IdleFilename

\* ImageProcessor.crop_to_ratio(image, ratio)
CropToRatio ==
    /\ ratio_cropped = NotRun
    /\ ratio_cropped' = crop_to_ratio(image_size[1], image_size[2],
                                      target_ratio[1], target_ratio[2])
    /\ UNCHANGED <<cropVars, catalogVars, formatterVars, appVars, layoutVars,
                   settingsVars, filenameVars>>

NextCropToRatio ==
    \/ CropToPassportRatio
    \/ CropToRatio

SpecCropToRatio == InitCropToRatio /\ [][NextCropToRatio]_vars

----------------------------------------------------------------------------
(* Specification SpecCatalog: calls on one PassportFormats object *)

\* Arguments of add_custom_format: nothing is validated, so zero and negative
\* values are arguments like any other.
WidthsMm == {-35, 0, 1, 35}

HeightsMm == {-45, 0, 45}

Dpis == {-300, 0, 25, 300}

InitCatalog ==
    /\ IdleCatalog
    /\ IdleCrop
    /\ IdleFormatter
    /\ IdleApp
    /\ IdleRatio
    /\ IdleSettings
    /\ IdleFilename
    /\ IdleLayout

\* formats.add_custom_format(name, width_mm, height_mm, dpi)
AddCustomFormat ==
    \E name \in CustomNames, width_mm \in WidthsMm, height_mm \in HeightsMm, dpi \in Dpis :
        /\ formats' = add_custom_format(formats, name, width_mm, height_mm, dpi)
        /\ catalog_call' = [op |-> "add_custom_format", name |-> name, result |-> None]
        /\ last_args' = [last_args EXCEPT ![name] = Some(<<width_mm, height_mm, dpi>>)]
        /\ UNCHANGED <<cropVars, formatterVars, appVars, layoutVars,
                   ratioVars, settingsVars, filenameVars>>

\* formats.get_format(format_name)
GetFormat ==
    \E name \in LookupNames :
        /\ catalog_call' = [op |-> "get_format", name |-> name,
                            result |-> get_format(formats, name)]
        /\ formats' = formats_after_get(formats, name)
        /\ UNCHANGED last_args
        /\ UNCHANGED <<cropVars, formatterVars, appVars, layoutVars,
                   ratioVars, settingsVars, filenameVars>>

\* formats.validate_format(formats.get_format(format_name)), for a name that
\* is registered
ValidateFormat ==
    \E name \in LookupNames :
        /\ get_format(formats, name) # None
        /\ catalog_call' = [op |-> "validate_format", name |-> name,
                            result |-> Some(validate_format(get_format(formats, name)[1]))]
        /\ UNCHANGED <<formats, last_args>>
        /\ UNCHANGED <<cropVars, formatterVars, appVars, layoutVars,
                   ratioVars, settingsVars, filenameVars>>

NextCatalog == AddCustomFormat \/ GetFormat \/ ValidateFormat

SpecCatalog == InitCatalog /\ [][NextCatalog]_vars

----------------------------------------------------------------------------
(* Specification SpecNames: add_custom_format and get_all_format_names on   *)
(* one PassportFormats object                                               *)

\* <<width_mm, height_mm, dpi>> of the formats added
ListedArgs == {<<35, 45, 300>>, <<51, 51, 300>>, <<1, 45, 25>>}

InitNames ==
    /\ IdleCatalog
    /\ IdleCrop
    /\ IdleFormatter
    /\ IdleApp
    /\ IdleRatio
    /\ IdleSettings
    /\ IdleFilename
    /\ IdleLayout

\* formats.add_custom_format(name, width_mm, height_mm, dpi)
AddListedFormat ==
    \E name \in ListedCustomNames, args \in ListedArgs :
        /\ formats' = add_custom_format(formats, name, args[1], args[2], args[3])
        /\ catalog_call' = [op |-> "add_custom_format", name |-> name, result |-> None]
        /\ last_args' = [last_args EXCEPT ![name] = Some(args)]
        /\ UNCHANGED <<cropVars, formatterVars, appVars, layoutVars,
                   ratioVars, settingsVars, filenameVars>>

\* formats.get_all_format_names()
GetAllFormatNames ==
    /\ catalog_call' = [op |-> "get_all_format_names", name |-> "",
                        result |-> get_all_format_names(formats)]
    /\ UNCHANGED <<formats, last_args>>
    /\ UNCHANGED <<cropVars, formatterVars, appVars, layoutVars,
                   ratioVars, settingsVars, filenameVars>>

NextNames == AddListedFormat \/ GetAllFormatNames

SpecNames == InitNames /\ [][NextNames]_vars

----------------------------------------------------------------------------
(* Specification SpecFormatter: one call of format_passport_photo *)

MaxFormatterSide == 2

\* The catalogs of the formatter: the built-ins alone, or with one custom
\* format "X" added at 300 dpi.
FormatterCatalogs ==
    {BuiltinFormats} \cup
    {add_custom_format(BuiltinFormats, "X", w, h, 300) : w \in WidthsMm, h \in HeightsMm}

FormatterNames == BuiltinNames \cup {"X", "Not A Format"}

InitFormatter ==
    /\ formats \in FormatterCatalogs
    /\ catalog_call = NoCall
    /\ last_args = [n \in AllNames |-> None]
    /\ image_size \in (1..MaxFormatterSide) \X (1..MaxFormatterSide)
    /\ target_ratio = <<1, 1>>
    /\ face_location \in FaceBoxesIn(MaxFormatterSide - 1, MaxFormatterSide - 1) \cup {NoFace}
    /\ face_percentage \in FacePercentages
    /\ cropped_image = NotRun
    /\ format_name \in FormatterNames
    /\ formatted = NotFormatted
    /\ IdleApp
    /\ IdleRatio
    /\ IdleSettings
    /\ IdleFilename
    /\ IdleLayout

\* formatted = formatter.format_passport_photo(image, format_name,
\*                                            face_location, face_percentage)
FormatPassportPhoto ==
    /\ formatted = NotFormatted
    /\ \E empty_raises \in BOOLEAN :
           formatted' = format_passport_photo(formats, image_size[1], image_size[2],
                            format_name, face_location, face_percentage, empty_raises)
    /\ UNCHANGED <<format_name, cropVars, catalogVars, appVars, layoutVars,
                   ratioVars, settingsVars, filenameVars>>

NextFormatter == FormatPassportPhoto

SpecFormatter == InitFormatter /\ [][NextFormatter]_vars

----------------------------------------------------------------------------
(* Specification SpecApp: PassportPhotoApp, gui/main_window.py               *)
(*                                                                         *)
(* The handlers run on the Tk main loop, one at a time.  detect_faces and   *)
(* remove_background start a worker thread each; a worker reads and writes  *)
(* the application's fields directly and hands its completion callback to   *)
(* the main loop with root.after(0, ...).                                   *)

MaxFiles == 3

MaxThreads == 1

Files == 1..MaxFiles

\* the size of the image in file k
FileSize(k) == <<2, 1 + (k % 2)>>

\* what FaceDetector.detect_faces finds in the image of file k
FileFaces(k) == IF k % 3 = 0 THEN <<>> ELSE << <<0, k, 1, 0>> >>

\* an image: the file it was made from, what it is, its size
Image(file, kind, size) == [file |-> file, kind |-> kind, size |-> size]

\* the format names the handler may read from the control panel
AppFormatNames == {"US Passport", "UK Passport", "Not A Format"}

\* the values the handler may read from the face-size slider: the slider left
\* at its default, or moved to its upper end
AppFacePercentages == {DefaultFacePercentage, MaxFacePercentage}

Event(op, shown, name) ==
    [op |-> op, shown |-> shown, format_name |-> name, photo |-> None]

\* a step that handed a photo to ImageProcessor.save_image or to the print
\* manager
OutputEvent(op, shown, photo) ==
    [op |-> op, shown |-> shown, format_name |-> "", photo |-> photo]

InitApp ==
    /\ IdleApp
    /\ IdleRatio
    /\ IdleSettings
    /\ IdleFilename
    /\ IdleLayout
    /\ IdleCrop
    /\ IdleCatalog
    /\ IdleFormatter

\* load_image that keeps the passport photo of the image loaded before
LoadImageKeeping ==
    /\ \/ \E k \in Files :
              /\ current_image' = Some(Image(k, "original", FileSize(k)))
              /\ processed_image' = None
              /\ face_locations' = <<>>
              /\ app_event' = Event("load_image", "Loaded", "")
       \/ /\ UNCHANGED <<current_image, processed_image, face_locations>>
          /\ app_event' = Event("load_image", "Error", "")
    /\ UNCHANGED <<passport_image, threads, after_queue>>
    /\ UNCHANGED <<cropVars, catalogVars, formatterVars, layoutVars,
                   ratioVars, settingsVars, filenameVars>>

\* load_image(file_path): ImageProcessor.load_image returns the image of the
\* file, or raises and the handler shows the error
LoadImage ==
    /\ \/ \E k \in Files :
              /\ current_image' = Some(Image(k, "original", FileSize(k)))
              /\ processed_image' = None
              /\ passport_image' = None
              /\ face_locations' = <<>>
              /\ app_event' = Event("load_image", "Loaded", "")
       \/ /\ UNCHANGED <<current_image, processed_image, passport_image,
                           face_locations>>
          /\ app_event' = Event("load_image", "Error", "")
    /\ UNCHANGED <<threads, after_queue>>
    /\ UNCHANGED <<cropVars, catalogVars, formatterVars, layoutVars,
                   ratioVars, settingsVars, filenameVars>>

\* detect_faces(): starts detect_thread
DetectFaces ==
    /\ IF current_image = None
       THEN /\ app_event' = Event("detect_faces", "No Image", "")
            /\ UNCHANGED threads
       ELSE /\ Len(threads) + Len(after_queue) < MaxThreads
            /\ threads' = Append(threads, [task |-> "detect", pc |-> "save",
                                           image |-> None])
            /\ app_event' = Event("detect_faces", "Detecting faces...", "")
    /\ UNCHANGED <<current_image, processed_image, passport_image, face_locations,
                   after_queue>>
    /\ UNCHANGED <<cropVars, catalogVars, formatterVars, layoutVars,
                   ratioVars, settingsVars, filenameVars>>

RemoveAt(seq, i) == [j \in 1..(Len(seq) - 1) |-> IF j < i THEN seq[j] ELSE seq[j + 1]]

\* detect_thread: self.current_image.save(temp_file.name, 'JPEG')
DetectThreadSave ==
    \E i \in DOMAIN threads :
        /\ threads[i].task = "detect" /\ threads[i].pc = "save"
        /\ threads' = [threads EXCEPT ![i] = [task |-> "detect", pc |-> "detect",
                                              image |-> current_image]]
        /\ app_event' = Event("detect_thread.save", "", "")
        /\ UNCHANGED <<current_image, processed_image, passport_image, face_locations,
                       after_queue>>
        /\ UNCHANGED <<cropVars, catalogVars, formatterVars, layoutVars,
                   ratioVars, settingsVars, filenameVars>>

\* detect_thread: self.face_locations, self.face_landmarks, _ =
\* self.face_detector.detect_faces(temp_path); root.after(0, self.on_faces_detected)
\* or, on an exception, root.after(0, on_face_detection_error)
DetectThreadDetect ==
    \E i \in DOMAIN threads, detected \in BOOLEAN :
        /\ threads[i].task = "detect" /\ threads[i].pc = "detect"
        /\ threads' = RemoveAt(threads, i)
        /\ IF detected
           THEN /\ face_locations' = FileFaces(threads[i].image[1].file)
                /\ after_queue' = Append(after_queue, [fn |-> "on_faces_detected",
                                                       image |-> None])
           ELSE /\ UNCHANGED face_locations
                /\ after_queue' = Append(after_queue, [fn |-> "on_face_detection_error",
                                                       image |-> None])
        /\ app_event' = Event("detect_thread.detect", "", "")
        /\ UNCHANGED <<current_image, processed_image, passport_image>>
        /\ UNCHANGED <<cropVars, catalogVars, formatterVars, layoutVars,
                   ratioVars, settingsVars, filenameVars>>

\* remove_background(): starts remove_bg_thread
RemoveBackground ==
    /\ IF current_image = None
       THEN /\ app_event' = Event("remove_background", "No Image", "")
            /\ UNCHANGED threads
       ELSE /\ Len(threads) + Len(after_queue) < MaxThreads
            /\ threads' = Append(threads, [task |-> "remove_bg", pc |-> "run",
                                           image |-> None])
            /\ app_event' = Event("remove_background", "Removing background...", "")
    /\ UNCHANGED <<current_image, processed_image, passport_image, face_locations,
                   after_queue>>
    /\ UNCHANGED <<cropVars, catalogVars, formatterVars, layoutVars,
                   ratioVars, settingsVars, filenameVars>>

\* remove_bg_thread: bg_removed_image = self.bg_remover.remove_background(
\* self.current_image); root.after(0, lambda: self.on_background_removed(...))
\* or, on an exception, root.after(0, on_background_removal_error)
RemoveBgThreadRun ==
    \E i \in DOMAIN threads, removed \in BOOLEAN :
        /\ threads[i].task = "remove_bg"
        /\ threads' = RemoveAt(threads, i)
        /\ after_queue' = Append(after_queue,
              IF removed
              THEN [fn |-> "on_background_removed",
                    image |-> Some(Image(current_image[1].file, "background removed",
                                         current_image[1].size))]
              ELSE [fn |-> "on_background_removal_error", image |-> None])
        /\ app_event' = Event("remove_bg_thread", "", "")
        /\ UNCHANGED <<current_image, processed_image, passport_image, face_locations>>
        /\ UNCHANGED <<cropVars, catalogVars, formatterVars, layoutVars,
                   ratioVars, settingsVars, filenameVars>>

\* FaceDetector.highlight_faces(image, face_locations): a copy of the image
\* with a red rectangle and a "Face n" label drawn for every face
highlight_faces(image, faces) ==
    Image(image.file, IF faces = <<>> THEN "copy" ELSE "highlighted", image.size)

\* BackgroundRemover.apply_background_color(image, color_name)
apply_background_color(image) == Image(image.file, "background", image.size)

\* the main loop runs the oldest queued callback: on_faces_detected,
\* on_background_removed(bg_removed_image) or one of the error callbacks
RunCallback ==
    /\ after_queue # <<>>
    /\ after_queue' = Tail(after_queue)
    /\ LET callback == Head(after_queue)
       IN  CASE callback.fn = "on_faces_detected" ->
                  /\ processed_image' =
                         Some(highlight_faces(current_image[1], face_locations))
                  /\ app_event' = Event("on_faces_detected", "Detected", "")
             [] callback.fn = "on_background_removed" ->
                  /\ processed_image' = Some(apply_background_color(callback.image[1]))
                  /\ app_event' = Event("on_background_removed", "Background removed", "")
             [] OTHER ->
                  /\ UNCHANGED processed_image
                  /\ app_event' = Event(callback.fn, "Error", "")
    /\ UNCHANGED <<current_image, passport_image, face_locations, threads>>
    /\ UNCHANGED <<cropVars, catalogVars, formatterVars, layoutVars,
                   ratioVars, settingsVars, filenameVars>>

\* PassportPhotoApp.format_passport_photo()
AppFormatPassportPhoto ==
    \E name \in AppFormatNames, pct \in AppFacePercentages, empty_raises \in BOOLEAN :
        LET source_image == IF processed_image # None THEN processed_image
                                                      ELSE current_image
        IN  /\ IF source_image = None
               THEN /\ app_event' = Event("format_passport_photo", "No Image", name)
                    /\ UNCHANGED passport_image
               ELSE LET face == IF face_locations # <<>> THEN face_locations[1]
                                                         ELSE NoFace
                        photo == format_passport_photo(formats,
                                     source_image[1].size[1], source_image[1].size[2],
                                     name, face, pct, empty_raises)
                    IN  IF photo.status = "returned"
                        THEN /\ passport_image' =
                                    Some([file |-> source_image[1].file,
                                          source |-> source_image[1].kind,
                                          size |-> photo.size,
                                          face |-> face])
                             /\ app_event' = Event("format_passport_photo",
                                                   "Formatted", name)
                        ELSE /\ UNCHANGED passport_image
                             /\ app_event' = Event("format_passport_photo",
                                                   "Error", name)
            /\ UNCHANGED <<current_image, processed_image, face_locations,
                           threads, after_queue>>
            /\ UNCHANGED <<cropVars, catalogVars, formatterVars, layoutVars,
                   ratioVars, settingsVars, filenameVars>>

\* save_passport_photo(): warns without a passport image; else saves it
\* under the next free name of the output directory ("Saved"), or shows the
\* error raised on the way
SavePassportPhoto ==
    /\ IF passport_image = None
       THEN app_event' = Event("save_passport_photo", "No Passport Photo", "")
       ELSE \E shown \in {"Saved", "Error"} :
                app_event' = OutputEvent("save_passport_photo", shown, passport_image)
    /\ UNCHANGED <<current_image, processed_image, passport_image, face_locations,
                   threads, after_queue>>
    /\ UNCHANGED <<cropVars, catalogVars, formatterVars, layoutVars,
                   ratioVars, settingsVars, filenameVars>>

\* save_as(): warns without a passport image; else asks for a file name and,
\* unless the dialog is cancelled, saves ("Saved") or shows the error
SaveAs ==
    /\ IF passport_image = None
       THEN app_event' = Event("save_as", "No Passport Photo", "")
       ELSE \/ app_event' = Event("save_as", "", "")
            \/ \E shown \in {"Saved", "Error"} :
                   app_event' = OutputEvent("save_as", shown, passport_image)
    /\ UNCHANGED <<current_image, processed_image, passport_image, face_locations,
                   threads, after_queue>>
    /\ UNCHANGED <<cropVars, catalogVars, formatterVars, layoutVars,
                   ratioVars, settingsVars, filenameVars>>

\* print_image(): warns without a passport image; else lays the photo out
\* and sends it to the printer ("Print", "Print Error"), or shows the error
PrintImage ==
    /\ IF passport_image = None
       THEN app_event' = Event("print_image", "No Passport Photo", "")
       ELSE \E shown \in {"Print", "Print Error", "Error"} :
                app_event' = OutputEvent("print_image", shown, passport_image)
    /\ UNCHANGED <<current_image, processed_image, passport_image, face_locations,
                   threads, after_queue>>
    /\ UNCHANGED <<cropVars, catalogVars, formatterVars, layoutVars,
                   ratioVars, settingsVars, filenameVars>>

\* print_preview(): warns without a passport image; else lays the photo out
\* and opens the preview, or shows the error
PrintPreview ==
    /\ IF passport_image = None
       THEN app_event' = Event("print_preview", "No Passport Photo", "")
       ELSE \E shown \in {"Print preview opened", "Error"} :
                app_event' = OutputEvent("print_preview", shown, passport_image)
    /\ UNCHANGED <<current_image, processed_image, passport_image, face_locations,
                   threads, after_queue>>
    /\ UNCHANGED <<cropVars, catalogVars, formatterVars, layoutVars,
                   ratioVars, settingsVars, filenameVars>>

NextApp ==
    \/ LoadImage
    \/ DetectFaces
    \/ DetectThreadSave
    \/ DetectThreadDetect
    \/ RemoveBackground
    \/ RemoveBgThreadRun
    \/ RunCallback
    \/ AppFormatPassportPhoto

SpecApp == InitApp /\ [][NextApp]_vars

\* Specification SpecOutput: the application with its handlers that save and
\* print the passport photo
NextOutput ==
    \/ NextApp
    \/ SavePassportPhoto
    \/ SaveAs
    \/ PrintImage
    \/ PrintPreview

SpecOutput == InitApp /\ [][NextOutput]_vars

----------------------------------------------------------------------------
(* Specification SpecSettings: calls on one Settings object *)

\* the paths given to add_recent_file and found in settings files
RecentPaths == {"a.jpg", "b.jpg"}

\* the values given to set for image_quality and max_recent_files
SetValues == {1, 80}

\* the dicts found in settings files: no key, one number, a list of recent
\* files, an empty list with max_recent_files
Dicts ==
    {Dict(None, None, None),
     Dict(Some(80), None, None),
     Dict(None, Some(<<"a.jpg">>), None),
     Dict(None, Some(<<>>), Some(1))}

\* the settings file, or the file given to import_settings
SettingsFiles ==
    {File(FALSE, FALSE, Dict(None, None, None)),
     File(TRUE, FALSE, Dict(None, None, None))}
    \cup {File(TRUE, TRUE, content) : content \in Dicts}

StoreNow == Store(default_settings, settings, recent_files_shared)

SettingsCall(op, result) == [op |-> op, result |-> result]

\* Settings.__init__: default_settings, then self.settings = load_settings()
InitSettings ==
    /\ \E file \in SettingsFiles :
           LET store == load_settings(Store(InitialDefaults, InitialDefaults, TRUE), file)
           IN  /\ default_settings = store.default_settings
               /\ settings = store.settings
               /\ recent_files_shared = store.shared
    /\ settings_call = SettingsCall("__init__", TRUE)
    /\ IdleCrop
    /\ IdleCatalog
    /\ IdleFormatter
    /\ IdleApp
    /\ IdleRatio
    /\ IdleLayout
    /\ IdleFilename

\* Settings.set(key, value) with a number
Set ==
    \E key \in {"image_quality", "max_recent_files"}, value \in SetValues :
        LET store == set(StoreNow, key, value)
        IN  /\ default_settings' = store.default_settings
            /\ settings' = store.settings
            /\ recent_files_shared' = store.shared
            /\ settings_call' = SettingsCall("set", TRUE)
            /\ UNCHANGED <<cropVars, catalogVars, formatterVars, appVars,
                           layoutVars, ratioVars, filenameVars>>

\* Settings.add_recent_file(file_path)
AddRecentFile ==
    \E file_path \in RecentPaths :
        LET store == add_recent_file(StoreNow, file_path)
        IN  /\ default_settings' = store.default_settings
            /\ settings' = store.settings
            /\ recent_files_shared' = store.shared
            /\ settings_call' = SettingsCall("add_recent_file", TRUE)
            /\ UNCHANGED <<cropVars, catalogVars, formatterVars, appVars,
                           layoutVars, ratioVars, filenameVars>>

\* Settings.clear_recent_files()
ClearRecentFiles ==
    LET store == clear_recent_files(StoreNow)
    IN  /\ default_settings' = store.default_settings
        /\ settings' = store.settings
        /\ recent_files_shared' = store.shared
        /\ settings_call' = SettingsCall("clear_recent_files", TRUE)
        /\ UNCHANGED <<cropVars, catalogVars, formatterVars, appVars,
                       layoutVars, ratioVars, filenameVars>>

\* Settings.reset_to_defaults()
ResetToDefaults ==
    LET store == reset_to_defaults(StoreNow)
    IN  /\ default_settings' = store.default_settings
        /\ settings' = store.settings
        /\ recent_files_shared' = store.shared
        /\ settings_call' = SettingsCall("reset_to_defaults", TRUE)
        /\ UNCHANGED <<cropVars, catalogVars, formatterVars, appVars,
                       layoutVars, ratioVars, filenameVars>>

\* Settings.import_settings(file_path): True when the file was read
ImportSettings ==
    \E file \in SettingsFiles :
        LET store == import_settings(StoreNow, file)
        IN  /\ default_settings' = store.default_settings
            /\ settings' = store.settings
            /\ recent_files_shared' = store.shared
            /\ settings_call' = SettingsCall("import_settings", file.exists /\ file.readable)
            /\ UNCHANGED <<cropVars, catalogVars, formatterVars, appVars,
                           layoutVars, ratioVars, filenameVars>>

NextSettings ==
    \/ Set
    \/ AddRecentFile
    \/ ClearRecentFiles
    \/ ResetToDefaults
    \/ ImportSettings

SpecSettings == InitSettings /\ [][NextSettings]_vars

----------------------------------------------------------------------------
(* Specification SpecFilename: save_passport_photo's calls of               *)
(* ImageProcessor.get_next_filename(output_dir, "passport_photo", ".jpg")   *)
(* and save_image in one output directory.  The loop of get_next_filename   *)
(* is one step per iteration.                                               *)

\* the last counter value the loop tries (9999 in the code: line 236)
MaxCounter == 4

BaseName == "passport_photo"

Extension == ".jpg"

\* the path the loop builds for counter n
NumberedFile(n) == FilePath(BaseName, Format03d(n), Extension)

\* files the loop never asks for: passport_photo_1.jpg, and the numbered
\* file after the last counter value
OtherFiles == {FilePath(BaseName, <<1>>, Extension), NumberedFile(MaxCounter + 1)}

InitFilename ==
    /\ directory \in SUBSET ({NumberedFile(n) : n \in 1..MaxCounter} \cup OtherFiles)
    /\ counter = 0
    /\ filename_pc = "idle"
    /\ filename_result = NoResult
    /\ IdleCrop
    /\ IdleCatalog
    /\ IdleFormatter
    /\ IdleApp
    /\ IdleRatio
    /\ IdleLayout
    /\ IdleSettings

FilenameResult(file_path, error) == [file_path |-> file_path, error |-> error]

\* get_next_filename with the loop starting at counter 2
GetNextFilenameFromTwo ==
    /\ filename_pc = "idle"
    /\ \E makedirs_raises \in BOOLEAN :
           IF makedirs_raises
           THEN /\ filename_pc' = "raised"
                /\ counter' = 0
                /\ filename_result' = FilenameResult(None, "makedirs")
           ELSE /\ filename_pc' = "searching"
                /\ counter' = 2
                /\ filename_result' = NoResult
    /\ UNCHANGED directory
    /\ UNCHANGED <<cropVars, catalogVars, formatterVars, appVars, layoutVars,
                   ratioVars, settingsVars>>

\* get_next_filename, up to the loop: os.makedirs(directory, exist_ok=True),
\* which may raise (the except clause logs and raises again); counter = 1
GetNextFilename ==
    /\ filename_pc = "idle"
    /\ \E makedirs_raises \in BOOLEAN :
           IF makedirs_raises
           THEN /\ filename_pc' = "raised"
                /\ counter' = 0
                /\ filename_result' = FilenameResult(None, "makedirs")
           ELSE /\ filename_pc' = "searching"
                /\ counter' = 1
                /\ filename_result' = NoResult
    /\ UNCHANGED directory
    /\ UNCHANGED <<cropVars, catalogVars, formatterVars, appVars, layoutVars,
                   ratioVars, settingsVars>>

\* one iteration of "while True": return file_path if it does not exist;
\* else counter += 1 and, beyond the last value, raise ValueError
LoopIteration ==
    /\ filename_pc = "searching"
    /\ LET file_path == NumberedFile(counter)
       IN  IF file_path \notin directory
           THEN /\ filename_pc' = "returned"
                /\ filename_result' = FilenameResult(Some(file_path), "")
                /\ UNCHANGED counter
           ELSE /\ counter' = counter + 1
                /\ IF counter + 1 > MaxCounter
                   THEN /\ filename_pc' = "raised"
                        /\ filename_result' =
                               FilenameResult(None, "Too many files in directory")
                   ELSE UNCHANGED <<filename_pc, filename_result>>
    /\ UNCHANGED directory
    /\ UNCHANGED <<cropVars, catalogVars, formatterVars, appVars, layoutVars,
                   ratioVars, settingsVars>>

\* save_passport_photo after get_next_filename returned:
\* ImageProcessor.save_image(self.passport_image, file_path, ...) writes the
\* file, or raises before the file is created
SaveImage ==
    /\ filename_pc = "returned"
    /\ \E saved \in BOOLEAN :
           directory' = IF saved THEN directory \cup {filename_result.file_path[1]}
                                 ELSE directory
    /\ filename_pc' = "idle"
    /\ counter' = 0
    /\ UNCHANGED filename_result
    /\ UNCHANGED <<cropVars, catalogVars, formatterVars, appVars, layoutVars,
                   ratioVars, settingsVars>>

\* save_passport_photo after get_next_filename raised: except Exception,
\* the error is shown
ShowFilenameError ==
    /\ filename_pc = "raised"
    /\ filename_pc' = "idle"
    /\ counter' = 0
    /\ UNCHANGED <<directory, filename_result>>
    /\ UNCHANGED <<cropVars, catalogVars, formatterVars, appVars, layoutVars,
                   ratioVars, settingsVars>>

NextFilename ==
    \/ GetNextFilename
    \/ LoopIteration
    \/ SaveImage
    \/ ShowFilenameError

\* a loop that has started keeps running
SpecFilename ==
    InitFilename /\ [][NextFilename]_vars /\ WF_vars(LoopIteration)

----------------------------------------------------------------------------
(* Specification SpecLayout: one call of create_print_layout *)

\* the photos tiled: the pixel sizes of the built-in formats
PhotoSizes ==
    {<<BuiltinFormats[i].specs.width_px, BuiltinFormats[i].specs.height_px>> :
        i \in DOMAIN BuiltinFormats}

\* the layouts of the control panel, and names that are no layout
LayoutTypes == {"2x2", "4x6", "wallet", "unknown-layout", "2X2", ""}

\* the steps that may raise: none, the resize, the first, second, fourth,
\* eighth and twenty-fourth paste
FailSteps == {NoFailure, 0, 1, 2, 4, 8, 24}

InitLayout ==
    /\ layout_photo \in PhotoSizes
    /\ layout_type \in LayoutTypes
    /\ fail_step \in FailSteps
    /\ print_image = NotTiled
    /\ IdleCrop
    /\ IdleCatalog
    /\ IdleFormatter
    /\ IdleApp
    /\ IdleRatio
    /\ IdleSettings
    /\ IdleFilename

\* print_image = self.passport_formatter.create_print_layout(passport_image,
\*                                                           layout_type)
CreatePrintLayout ==
    /\ print_image = NotTiled
    /\ print_image' = create_print_layout(layout_photo, layout_type, fail_step)
    /\ UNCHANGED <<layout_photo, layout_type, fail_step>>
    /\ UNCHANGED <<cropVars, catalogVars, formatterVars, appVars,
                   ratioVars, settingsVars, filenameVars>>

NextLayout == CreatePrintLayout

SpecLayout == InitLayout /\ [][NextLayout]_vars

----------------------------------------------------------------------------
(* The crop planner: state functions *)

Planned == cropped_image # NotRun

SourceWidth == image_size[1]

SourceHeight == image_size[2]

CropLeft == cropped_image.box[1]

CropTop == cropped_image.box[2]

CropRight == cropped_image.box[3]

CropBottom == cropped_image.box[4]

CropWidth == CropRight - CropLeft

CropHeight == CropBottom - CropTop

HasFace == face_location # NoFace

FaceTop == face_location[1]

FaceRight == face_location[2]

FaceBottom == face_location[3]

FaceLeft == face_location[4]

FaceHeight == FaceBottom - FaceTop

FaceInsideSource ==
    /\ HasFace
    /\ 0 <= FaceTop /\ FaceBottom <= SourceHeight
    /\ 0 <= FaceLeft /\ FaceRight <= SourceWidth

\* current_ratio > target_ratio: the image is too wide, its sides are cropped
HorizontalOverflow == SourceWidth * target_ratio[2] > target_ratio[1] * SourceHeight

VerticalOverflow == ~HorizontalOverflow

\* floor(source_width / target_ratio): the ratio-driven crop height
RatioHeight == (SourceWidth * target_ratio[2]) \div target_ratio[1]

\* floor(source_height * target_ratio): the ratio-driven crop width
RatioWidth == (SourceHeight * target_ratio[1]) \div target_ratio[2]

\* width / height = n / d within integer rounding: width within 1 px of
\* height * n / d, or height within 1 px of width * d / n
RatioWithinRounding(width, height, n, d) ==
    \/ Abs(width * d - height * n) <= d
    \/ Abs(height * n - width * d) <= n

CropInsideSource ==
    /\ 0 <= CropLeft /\ CropLeft < CropRight /\ CropRight <= SourceWidth
    /\ 0 <= CropTop /\ CropTop < CropBottom /\ CropBottom <= SourceHeight

----------------------------------------------------------------------------
(* Claims about the crop planner *)

\* C1: with a face box (face height > 0, face_percentage in [50,80]) the
\* returned crop rectangle has width / height equal to target_ratio within
\* integer rounding, also when the crop height was enlarged for the face.
C1_FaceCropHasTargetRatio ==
    (Planned /\ HasFace /\ FaceHeight > 0
        /\ face_percentage >= MinFacePercentage
        /\ face_percentage <= MaxFacePercentage)
    => RatioWithinRounding(CropWidth, CropHeight, target_ratio[1], target_ratio[2])

\* C2: for every source size, ratio > 0, face_percentage in [50,80] and a face
\* box that is absent or has bottom > top and right > left, the crop
\* satisfies 0 <= left < right <= source_width, 0 <= top < bottom <= source_height.
C2_CropInsideSourceNonEmpty ==
    (Planned /\ (HasFace => (FaceBottom > FaceTop /\ FaceRight > FaceLeft))
        /\ face_percentage >= MinFacePercentage
        /\ face_percentage <= MaxFacePercentage)
    => CropInsideSource

\* The face is 40% of the ratio-driven crop height, face_percentage is 65
C3_Case ==
    /\ Planned /\ VerticalOverflow /\ FaceInsideSource
    /\ FaceHeight > 0
    /\ 5 * FaceHeight = 2 * RatioHeight
    /\ face_percentage = DefaultFacePercentage

\* C3: in the vertical-overflow case, with a face of 40% of the ratio-driven
\* crop height and face_percentage = 65, the crop window is enlarged so that
\* face_height / crop height is 65% within rounding, and 0 <= top < bottom <=
\* source_height.
C3_FaceOccupiesRequestedShare ==
    C3_Case =>
        /\ CropHeight # RatioHeight
        /\ Abs(100 * FaceHeight - face_percentage * CropHeight) <= face_percentage
        /\ 0 <= CropTop /\ CropTop < CropBottom /\ CropBottom <= SourceHeight

\* C4: in the vertical-overflow case, for a face box inside the source with
\* positive height and face_percentage in [50,80], the crop contains the whole
\* vertical extent of the face.
C4_FaceNotCroppedOut ==
    (Planned /\ VerticalOverflow /\ FaceInsideSource /\ FaceHeight > 0
        /\ face_percentage >= MinFacePercentage
        /\ face_percentage <= MaxFacePercentage)
    => (CropTop <= FaceTop /\ FaceBottom <= CropBottom)

\* C5: without a face box the crop is centred on the image (the two margins of
\* the cropped axis differ by at most 1 px), has the target ratio within 1 px
\* (width = floor(height * ratio) or height = floor(width / ratio)) and lies
\* inside the source bounds.
C5_CentredCropWithoutFace ==
    (Planned /\ ~HasFace) =>
        /\ ~cropped_image.failed
        /\ 0 <= CropLeft /\ CropLeft <= CropRight /\ CropRight <= SourceWidth
        /\ 0 <= CropTop /\ CropTop <= CropBottom /\ CropBottom <= SourceHeight
        /\ IF HorizontalOverflow
           THEN /\ CropTop = 0 /\ CropBottom = SourceHeight
                /\ CropWidth = RatioWidth
                /\ Abs(CropLeft - (SourceWidth - CropRight)) <= 1
           ELSE /\ CropLeft = 0 /\ CropRight = SourceWidth
                /\ CropHeight = RatioHeight
                /\ Abs(CropTop - (SourceHeight - CropBottom)) <= 1

\* C5 witness: a centred crop of the sides with margins that differ by 1 px
C5_Witness ==
    /\ Planned /\ ~HasFace /\ HorizontalOverflow
    /\ CropLeft > 0
    /\ (SourceWidth - CropRight) = CropLeft + 1

----------------------------------------------------------------------------
(* Claims about the formatter, the catalog and the application *)

\* name is a key of the dict (exact string match)
Registered(fmts, name) == \E i \in DOMAIN fmts : fmts[i].name = name

\* the value stored under a registered name
EntryOf(fmts, name) == fmts[CHOOSE i \in DOMAIN fmts : fmts[i].name = name].specs

\* C6: a photo returned by format_passport_photo has exactly (width_px,
\* height_px) pixels of its format, whatever crop was chosen, also when crop
\* planning failed and fell back to the uncropped source.
C6_PhotoHasFormatSize ==
    formatted.status = "returned" =>
        /\ Registered(formats, format_name)
        /\ formatted.size = <<EntryOf(formats, format_name).width_px,
                              EntryOf(formats, format_name).height_px>>

\* C6 witness: crop planning failed (a zero-height face box in the
\* vertical-overflow case), the uncropped source was resized to the format
C6_Witness ==
    /\ formatted.status = "returned"
    /\ formatted.cropped.failed
    /\ formatted.cropped.box = <<0, 0, image_size[1], image_size[2]>>
    /\ formatted.size # image_size
    /\ formatted.size = <<EntryOf(formats, format_name).width_px,
                          EntryOf(formats, format_name).height_px>>

\* C7: built-in specs are immutable: after any sequence of add_custom_format
\* calls with any names, lookup of every built-in name returns the spec
\* populated at construction.
C7_BuiltinsImmutable ==
    \A n \in BuiltinNames : get_format(formats, n) = Some(EntryOf(BuiltinFormats, n))

\* the state part of C8, about the last lookup
C8_LookupResult ==
    catalog_call.op = "get_format" =>
        LET n == catalog_call.name
        IN  /\ (catalog_call.result = None) <=> (n \notin BuiltinNames /\ last_args[n] = None)
            /\ last_args[n] # None =>
                   catalog_call.result =
                       Some(custom_specs(last_args[n][1][1], last_args[n][1][2],
                                         last_args[n][1][3]))
            /\ (last_args[n] = None /\ n \in BuiltinNames) =>
                   catalog_call.result = Some(EntryOf(BuiltinFormats, n))

\* C8: after any sequence of add_custom_format calls, lookup(name) returns
\* None exactly when name is neither a built-in name nor a name passed to
\* add_custom_format before (never a default spec); an added name gives the
\* spec of its most recent add_custom_format; lookup never changes the catalog.
C8_LookupExactAndPure ==
    /\ []C8_LookupResult
    /\ [][catalog_call'.op = "get_format" => formats' = formats]_vars

\* C8 witness: a custom format was added and then looked up
C8_Witness ==
    /\ catalog_call.op = "get_format"
    /\ catalog_call.name = "X"
    /\ last_args["X"] = Some(<<35, 45, 300>>)
    /\ catalog_call.result # None
    /\ catalog_call.result[1].width_px = 413

\* C9: format_passport_photo with a format name that is not registered shows
\* an error and makes no photo (of no default format either); passport_image,
\* processed_image, current_image and face_locations are left as they were.
\* (The handler calls the formatter only when there is an image to format.)
C9_UnknownFormatFails ==
    [][(app_event'.op = "format_passport_photo"
            /\ ~Registered(formats, app_event'.format_name))
        => /\ (current_image # None \/ processed_image # None)
                  => app_event'.shown = "Error"
           /\ app_event'.shown # "Formatted"
           /\ passport_image' = passport_image
           /\ processed_image' = processed_image
           /\ current_image' = current_image
           /\ face_locations' = face_locations]_vars

\* C9 witness: the failed call came after a photo had been made; the photo stays
C9_Witness ==
    /\ app_event.op = "format_passport_photo"
    /\ app_event.format_name = "Not A Format"
    /\ app_event.shown = "Error"
    /\ passport_image # None
    /\ face_locations # <<>>

\* the pixel size the claim C10 states: floor((mm / 25.4) * dpi)
FloorPx(mm, dpi) == (mm * 10 * dpi) \div 254

\* the same product truncated toward zero
TruncPx(mm, dpi) ==
    IF mm * dpi >= 0 THEN (mm * 10 * dpi) \div 254
                     ELSE -((-(mm * 10 * dpi)) \div 254)

StoredAsGiven(n) ==
    LET args == last_args[n][1]
        specs == get_format(formats, n)[1]
    IN  /\ specs.width_mm = args[1]
        /\ specs.height_mm = args[2]
        /\ specs.dpi = args[3]
        /\ args = <<35, 45, 300>> => (specs.width_px = 413 /\ specs.height_px = 531)

\* C10 as stated: for every numeric input of add_custom_format, zero and
\* negative values included, lookup(name) has width_px = floor((width_mm /
\* 25.4) * dpi), height_px = floor((height_mm / 25.4) * dpi), with width_mm,
\* height_mm and dpi stored as given; (35, 45, 300) gives 413 x 531.
C10_PixelsRoundedDown ==
    \A n \in AllNames :
        last_args[n] # None =>
            /\ get_format(formats, n) # None
            /\ StoredAsGiven(n)
            /\ get_format(formats, n)[1].width_px =
                   FloorPx(last_args[n][1][1], last_args[n][1][3])
            /\ get_format(formats, n)[1].height_px =
                   FloorPx(last_args[n][1][2], last_args[n][1][3])

\* C10 amended: the pixel sizes are the products truncated toward zero (the
\* floor when the product is not negative), the rest as stated.
C10_PixelsTruncated ==
    \A n \in AllNames :
        last_args[n] # None =>
            /\ get_format(formats, n) # None
            /\ StoredAsGiven(n)
            /\ get_format(formats, n)[1].width_px =
                   TruncPx(last_args[n][1][1], last_args[n][1][3])
            /\ get_format(formats, n)[1].height_px =
                   TruncPx(last_args[n][1][2], last_args[n][1][3])

\* C10 witness: a negative width, where truncation and floor differ
C10_Witness ==
    /\ last_args["X"] = Some(<<-35, 45, 300>>)
    /\ get_format(formats, "X") # None
    /\ get_format(formats, "X")[1].width_px = -413
    /\ get_format(formats, "X")[1].height_px = 531
    /\ FloorPx(-35, 300) = -414

----------------------------------------------------------------------------
(* Claims about the pixel sizes of the catalog *)

\* the arguments of the last add_custom_format for name n
ArgsOf(n) == last_args[n][1]

\* the entry now stored under a registered name n
StoredSpecs(n) == get_format(formats, n)[1]

\* C11: every built-in format has width_px = floor((width_mm / 25.4) * dpi)
\* and height_px = floor((height_mm / 25.4) * dpi), the rule of the custom
\* formats: add_custom_format with its width_mm, height_mm and dpi gives its
\* width_px and height_px.
C11_BuiltinsFollowCustomRule ==
    \A n \in BuiltinNames :
        last_args[n] = None =>
            /\ StoredSpecs(n).width_px = FloorPx(StoredSpecs(n).width_mm, StoredSpecs(n).dpi)
            /\ StoredSpecs(n).height_px = FloorPx(StoredSpecs(n).height_mm, StoredSpecs(n).dpi)
            /\ custom_specs(StoredSpecs(n).width_mm, StoredSpecs(n).height_mm,
                            StoredSpecs(n).dpi).width_px = StoredSpecs(n).width_px
            /\ custom_specs(StoredSpecs(n).width_mm, StoredSpecs(n).height_mm,
                            StoredSpecs(n).dpi).height_px = StoredSpecs(n).height_px

\* width_px / height_px matches width_mm / height_mm within one pixel
PixelRatioMatches(specs) ==
    \/ Abs(specs.width_px * specs.height_mm - specs.height_px * specs.width_mm)
           <= specs.height_mm
    \/ Abs(specs.height_px * specs.width_mm - specs.width_px * specs.height_mm)
           <= specs.width_mm

\* C12: every spec in the catalog - a built-in, or a custom spec added with
\* positive width_mm, height_mm and dpi that gives pixel sizes >= 1 - has
\* width_px within 1 of height_px * width_mm / height_mm, or height_px within
\* 1 of width_px * height_mm / width_mm.
C12_PixelRatioMatchesMmRatio ==
    \A i \in DOMAIN formats :
        LET n == formats[i].name
            specs == formats[i].specs
        IN  \/ last_args[n] = None
            \/ /\ specs.width_mm > 0 /\ specs.height_mm > 0 /\ specs.dpi > 0
               /\ specs.width_px >= 1 /\ specs.height_px >= 1
            => PixelRatioMatches(specs)

\* C12 witness: a custom format of 1 x 45 mm at 300 dpi, 11 x 531 px, beside
\* built-ins that were not overwritten
C12_Witness ==
    /\ last_args["X"] = Some(<<1, 45, 300>>)
    /\ last_args["US Passport"] = None
    /\ get_format(formats, "X") # None
    /\ StoredSpecs("X").width_px = 11
    /\ StoredSpecs("X").height_px = 531

\* C13: every spec stored by add_custom_format with width_mm > 0, height_mm >
\* 0 and dpi > 0 has positive width_px and height_px, and validate_format
\* returns True for it.
C13_PositiveInputsGiveValidSpec ==
    \A n \in AllNames :
        (last_args[n] # None /\ ArgsOf(n)[1] > 0 /\ ArgsOf(n)[2] > 0 /\ ArgsOf(n)[3] > 0)
        => /\ StoredSpecs(n).width_px > 0
           /\ StoredSpecs(n).height_px > 0
           /\ validate_format(StoredSpecs(n))
           /\ (catalog_call.op = "validate_format" /\ catalog_call.name = n)
                  => catalog_call.result = Some(TRUE)

\* C14: add_custom_format never rejects and never validates: for arguments
\* of which at least one is zero or negative the spec is stored under the
\* name (get_format returns it) and validate_format returns False for it.
C14_InvalidInputStoredUnvalidated ==
    \A n \in AllNames :
        (last_args[n] # None
            /\ (ArgsOf(n)[1] <= 0 \/ ArgsOf(n)[2] <= 0 \/ ArgsOf(n)[3] <= 0))
        => /\ get_format(formats, n) =
                  Some(custom_specs(ArgsOf(n)[1], ArgsOf(n)[2], ArgsOf(n)[3]))
           /\ ~validate_format(StoredSpecs(n))
           /\ (catalog_call.op = "validate_format" /\ catalog_call.name = n)
                  => catalog_call.result = Some(FALSE)

\* C14 witness: all three arguments negative, both pixel sizes positive, the
\* stored spec was validated
C14_Witness ==
    /\ last_args["X"] = Some(<<-35, -45, -300>>)
    /\ catalog_call.op = "validate_format"
    /\ catalog_call.name = "X"
    /\ catalog_call.result = Some(FALSE)
    /\ StoredSpecs("X").width_px = 413
    /\ StoredSpecs("X").height_px = 531

----------------------------------------------------------------------------
(* Claims about the list of names *)

\* the names get_all_format_names returns now
ListedNames == get_all_format_names(formats)

\* every registered name is listed exactly once, the built-in names first in
\* their declared order; the last get_all_format_names returned that list
C15_NamesListed ==
    /\ \A i, j \in DOMAIN ListedNames : ListedNames[i] = ListedNames[j] => i = j
    /\ {ListedNames[i] : i \in DOMAIN ListedNames} =
           BuiltinNames \cup {n \in AllNames : last_args[n] # None}
    /\ Len(ListedNames) >= Len(BuiltinFormats)
    /\ \A i \in DOMAIN BuiltinFormats : ListedNames[i] = BuiltinFormats[i].name
    /\ catalog_call.op = "get_all_format_names" => catalog_call.result = ListedNames

\* C15: after any sequence of add_custom_format calls get_all_format_names
\* returns each registered name exactly once, the 15 built-in names first in
\* their declared order, then the custom names in the order of their first
\* addition: adding a new name appends it at the end, adding a registered
\* name leaves the list unchanged, no name ever disappears.
C15_NamesInInsertionOrder ==
    /\ []C15_NamesListed
    /\ [][IF /\ catalog_call'.op = "add_custom_format"
              /\ ~Registered(formats, catalog_call'.name)
           THEN get_all_format_names(formats') = Append(ListedNames, catalog_call'.name)
           ELSE get_all_format_names(formats') = ListedNames]_vars

\* C15 witness: "Y" was added before "X" and has just been added again; the
\* list still ends with "Y", "X"
C15_Witness ==
    /\ catalog_call.op = "add_custom_format"
    /\ catalog_call.name = "Y"
    /\ Len(ListedNames) = Len(BuiltinFormats) + 2
    /\ ListedNames[Len(BuiltinFormats) + 1] = "Y"
    /\ ListedNames[Len(BuiltinFormats) + 2] = "X"
    /\ last_args["US Passport"] # None

----------------------------------------------------------------------------
(* Claims about the print layout *)

\* the table of layouts as the claims state it
TileTable ==
    [l \in {"2x2", "4x6", "wallet"} |->
        CASE l = "2x2" -> [cols |-> 2, rows |-> 2, canvas |-> <<600, 600>>, spacing |-> 10]
          [] l = "4x6" -> [cols |-> 4, rows |-> 6, canvas |-> <<1200, 1800>>, spacing |-> 15]
          [] l = "wallet" -> [cols |-> 2, rows |-> 4, canvas |-> <<600, 900>>, spacing |-> 10]]

\* the row of the table a layout name stands for
TileRow == IF layout_type \in DOMAIN TileTable THEN TileTable[layout_type]
                                               ELSE TileTable["2x2"]

Tiled == print_image # NotTiled

\* the resize or one of the pastes of the call raised
TilingFailed == fail_step \in 0..(TileRow.cols * TileRow.rows)

CellWidth == (TileRow.canvas[1] - TileRow.spacing * (TileRow.cols + 1)) \div TileRow.cols

CellHeight == (TileRow.canvas[2] - TileRow.spacing * (TileRow.rows + 1)) \div TileRow.rows

\* one pasted copy: its size and its position
Copy(width, height, x, y) == [image |-> <<width, height>>, at |-> <<x, y>>]

\* C16: for each layout of the table, create_print_layout pastes cols x rows
\* identical copies in row-major order, each cell_width x cell_height, at x =
\* spacing + col * (cell_width + spacing), y = spacing + row * (cell_height +
\* spacing); for 2x2 four 285 x 285 copies at (10,10), (305,10), (10,305),
\* (305,305).
C16_TilesAsTabulated ==
    (Tiled /\ ~TilingFailed /\ layout_type \in DOMAIN TileTable) =>
        /\ print_image.kind = "layout"
        /\ print_image.size = TileRow.canvas
        /\ Len(print_image.pastes) = TileRow.cols * TileRow.rows
        /\ \A row \in 0..(TileRow.rows - 1), col \in 0..(TileRow.cols - 1) :
               print_image.pastes[row * TileRow.cols + col + 1] =
                   Copy(CellWidth, CellHeight,
                        TileRow.spacing + col * (CellWidth + TileRow.spacing),
                        TileRow.spacing + row * (CellHeight + TileRow.spacing))
        /\ layout_type = "2x2" =>
               print_image.pastes = <<Copy(285, 285, 10, 10), Copy(285, 285, 305, 10),
                                      Copy(285, 285, 10, 305), Copy(285, 285, 305, 305)>>

\* C16 witness: the 4x6 layout, 24 copies of 281 x 282, the last at (903, 1500)
C16_Witness ==
    /\ Tiled /\ layout_type = "4x6" /\ fail_step = NoFailure
    /\ Len(print_image.pastes) = 24
    /\ print_image.pastes[24] = Copy(281, 282, 903, 1500)

\* the copies p and q are apart by at least the spacing, on one axis
Separated(p, q, spacing) ==
    \/ p.at[1] + p.image[1] + spacing <= q.at[1]
    \/ q.at[1] + q.image[1] + spacing <= p.at[1]
    \/ p.at[2] + p.image[2] + spacing <= q.at[2]
    \/ q.at[2] + q.image[2] + spacing <= p.at[2]

\* C17: tiling never overflows the canvas: every cell is at least 1 x 1 px,
\* every copy lies inside the canvas, no two copies overlap, at least
\* `spacing` pixels separate a copy from its neighbours and from every edge
\* of the canvas.
C17_TilesInsideCanvas ==
    (Tiled /\ print_image.kind = "layout") =>
        /\ print_image.pastes # <<>>
        /\ \A k \in DOMAIN print_image.pastes :
               LET p == print_image.pastes[k]
               IN  /\ p.image[1] >= 1 /\ p.image[2] >= 1
                   /\ TileRow.spacing <= p.at[1]
                   /\ p.at[1] + p.image[1] <= print_image.size[1] - TileRow.spacing
                   /\ TileRow.spacing <= p.at[2]
                   /\ p.at[2] + p.image[2] <= print_image.size[2] - TileRow.spacing
        /\ \A j, k \in DOMAIN print_image.pastes :
               j # k => Separated(print_image.pastes[j], print_image.pastes[k],
                                  TileRow.spacing)

\* C17 witness: the wallet layout, the last of its 8 copies ends at y = 888
C17_Witness ==
    /\ Tiled /\ layout_type = "wallet" /\ print_image.kind = "layout"
    /\ Len(print_image.pastes) = 8
    /\ print_image.pastes[8].at[2] + print_image.pastes[8].image[2] = 888

\* C18: for a layout_type that is not "2x2", "4x6" or "wallet",
\* create_print_layout gives the canvas size, cell size, number of copies and
\* paste positions of the call with "2x2".
C18_UnknownLayoutIsTwoByTwo ==
    (Tiled /\ layout_type \notin {"2x2", "4x6", "wallet"}) =>
        /\ print_image = create_print_layout(layout_photo, "2x2", fail_step)
        /\ ~TilingFailed =>
               /\ print_image.kind = "layout"
               /\ print_image.size = <<600, 600>>
               /\ print_image.pastes = <<Copy(285, 285, 10, 10), Copy(285, 285, 305, 10),
                                          Copy(285, 285, 10, 305), Copy(285, 285, 305, 305)>>

\* C18 witness: a layout name that differs from "2x2" in case only
C18_Witness ==
    /\ Tiled /\ layout_type = "2X2" /\ fail_step = NoFailure
    /\ print_image.size = <<600, 600>>
    /\ Len(print_image.pastes) = 4

\* C19: if the resize or a paste of create_print_layout fails the call
\* returns the photo it was given, unchanged; a partly painted canvas is
\* never returned.
C19_FailureReturnsPhoto ==
    Tiled =>
        /\ TilingFailed => print_image = [kind |-> "photo", size |-> layout_photo,
                                          pastes |-> <<>>]
        /\ print_image.kind = "layout" =>
               Len(print_image.pastes) = TileRow.cols * TileRow.rows

\* C19 witness: the eighth paste of the 4x6 layout raised
C19_Witness ==
    /\ Tiled /\ layout_type = "4x6" /\ fail_step = 8
    /\ print_image.kind = "photo"
    /\ print_image.size = layout_photo

----------------------------------------------------------------------------
(* Claims about degenerate face boxes *)

\* C20: a face box of zero height (bottom = top) is guarded: with horizontal
\* or vertical overflow the call does not fail on a division by zero and
\* returns the crop of the call without a face box for the same image size
\* and target ratio.
C20_ZeroHeightFaceTreatedAsAbsent ==
    (Planned /\ HasFace /\ FaceHeight = 0) =>
        /\ ~cropped_image.failed
        /\ cropped_image = crop_to_passport_ratio(SourceWidth, SourceHeight,
                                target_ratio[1], target_ratio[2],
                                NoFace, face_percentage)

----------------------------------------------------------------------------
(* Claims about the placement of the crop *)

\* C21: for every face_percentage outside [50, 80] (0, negative values and
\* values above 100 included) and a face box of positive height the call
\* does not end in an error: it returns a crop of positive width and height
\* inside the source bounds.
C21_OutOfRangePercentageCrops ==
    (Planned /\ HasFace /\ FaceHeight > 0
        /\ (face_percentage < MinFacePercentage \/ face_percentage > MaxFacePercentage))
    => (~cropped_image.failed /\ CropInsideSource)

FaceCenterX == (FaceLeft + FaceRight) \div 2

FaceCenterY == (FaceTop + FaceBottom) \div 2

\* value clamped into [low, high]
Clamped(value, low, high) == Max(low, Min(value, high))

\* the crop top before clamping: face_center_y - floor(new_height * 0.25 +
\* face_height / 2), new_height being the height of the returned crop
UnclampedTop == FaceCenterY - ((CropHeight + 2 * FaceHeight) \div 4)

\* C22: in the vertical-overflow case with a face box (positive height,
\* face_percentage in [50, 80]) the crop top is face_center_y -
\* floor(new_height * 0.25 + face_height / 2) clamped into [0, source_height -
\* new_height]; when the clamp does not apply the face's top edge is within 1
\* px of 25% of the crop height below the crop top.
C22_FaceTopAtQuarter ==
    (Planned /\ VerticalOverflow /\ HasFace /\ FaceHeight > 0
        /\ face_percentage >= MinFacePercentage
        /\ face_percentage <= MaxFacePercentage)
    => /\ ~cropped_image.failed
       /\ CropTop = Clamped(UnclampedTop, 0, SourceHeight - CropHeight)
       /\ (0 <= UnclampedTop /\ UnclampedTop <= SourceHeight - CropHeight)
              => Abs(4 * (FaceTop - CropTop) - CropHeight) <= 4

\* C22 witness: the clamp does not apply and the crop starts below the top
\* of the image, a quarter of its height above the face
C22_Witness ==
    /\ Planned /\ VerticalOverflow /\ HasFace /\ FaceHeight > 0
    /\ CropTop = UnclampedTop
    /\ CropTop > 0
    /\ CropBottom < SourceHeight
    /\ CropHeight >= 4
    /\ FaceTop - CropTop = CropHeight \div 4

\* C23: only one axis is cropped, with or without a face box: with
\* source_width / source_height > target_ratio the crop has top = 0 and
\* bottom = source_height, otherwise left = 0 and right = source_width.
C23_OneAxisCropped ==
    Planned =>
        IF HorizontalOverflow
        THEN CropTop = 0 /\ CropBottom = SourceHeight
        ELSE CropLeft = 0 /\ CropRight = SourceWidth

\* C23 witness: a face box, the crop height enlarged for it and moved down,
\* the full width kept
C23_Witness ==
    /\ Planned /\ HasFace /\ VerticalOverflow
    /\ CropHeight > RatioHeight
    /\ CropTop > 0
    /\ CropLeft = 0 /\ CropRight = SourceWidth

\* C24: in the horizontal-overflow case with a face box the crop's left edge
\* is face_center_x - floor(new_width / 2) clamped into [0, source_width -
\* new_width], new_width = floor(source_height * target_ratio); a face centre
\* inside the source is inside the horizontal extent of the crop (left <=
\* face_center_x <= right, and face_center_x < right when the crop is not
\* empty).
C24_CropFollowsFaceCentre ==
    (Planned /\ HorizontalOverflow /\ HasFace) =>
        /\ ~cropped_image.failed
        /\ CropWidth = RatioWidth
        /\ CropLeft = Clamped(FaceCenterX - (RatioWidth \div 2), 0, SourceWidth - RatioWidth)
        /\ (0 <= FaceCenterX /\ FaceCenterX < SourceWidth) =>
               /\ CropLeft <= FaceCenterX /\ FaceCenterX <= CropRight
               /\ CropWidth >= 1 => FaceCenterX < CropRight

\* C24 witness: a face near the right edge, the crop clamped to that edge
C24_Witness ==
    /\ Planned /\ HorizontalOverflow /\ HasFace
    /\ CropWidth >= 2
    /\ FaceCenterX - (RatioWidth \div 2) > SourceWidth - RatioWidth
    /\ CropRight = SourceWidth
    /\ CropLeft > 0
    /\ FaceCenterX < SourceWidth

\* C28: ImageProcessor.crop_to_ratio(image, ratio) and
\* _crop_to_passport_ratio(image, ratio) without a face box select the same
\* crop rectangle, for every image size and ratio > 0 and whatever
\* face_percentage is passed.
C28_SameCropWithoutFace ==
    (Planned /\ ~HasFace /\ ratio_cropped # NotRun)
    => (~cropped_image.failed /\ ratio_cropped = cropped_image)

\* C28 witness: both calls made, with a face_percentage that is not the
\* default; rows are cut off above and below
C28_Witness ==
    /\ Planned /\ ~HasFace /\ ratio_cropped # NotRun
    /\ face_percentage # DefaultFacePercentage
    /\ ratio_cropped.box[2] > 0
    /\ ratio_cropped.box[4] < SourceHeight

----------------------------------------------------------------------------
(* Claims about the application state *)

CurrentFile == current_image[1].file

\* C25: results of a face detection or background removal started on one
\* image are never installed for a different image: once an image is
\* loaded, face_locations holds the faces of that image or is empty, and
\* processed_image is None or made from that image.
C25_ResultsBelongToLoadedImage ==
    current_image # None =>
        /\ face_locations \in {<<>>, FileFaces(CurrentFile)}
        /\ processed_image # None => processed_image[1].file = CurrentFile

\* C26: the source image that format_passport_photo crops is the loaded
\* original or the background-replaced image, never the display image with
\* the face highlights drawn by on_faces_detected.
C26_SourceNeverHighlighted ==
    passport_image # None => passport_image[1].source # "highlighted"

OutputOps == {"save_passport_photo", "save_as", "print_image", "print_preview"}

\* C27: save_passport_photo, save_as, print_image and print_preview act only
\* when a passport image exists, and then on that image, changing no state
\* field; a successful load_image clears passport_image, processed_image and
\* face_locations; a failed load_image leaves current_image and these three
\* unchanged; only a successful format_passport_photo installs a passport
\* image, so after a load nothing is saved or printed until it has succeeded
\* again.
C27_OutputOnlyOfFormattedPhoto ==
    [][/\ app_event'.op \in OutputOps =>
             /\ UNCHANGED <<current_image, processed_image, passport_image,
                            face_locations>>
             /\ IF passport_image = None
                THEN app_event'.shown = "No Passport Photo" /\ app_event'.photo = None
                ELSE app_event'.photo \in {None, passport_image}
       /\ (app_event'.op = "load_image" /\ app_event'.shown = "Loaded") =>
             /\ current_image' # None
             /\ passport_image' = None
             /\ processed_image' = None
             /\ face_locations' = <<>>
       /\ (app_event'.op = "load_image" /\ app_event'.shown = "Error") =>
             UNCHANGED <<current_image, processed_image, passport_image,
                         face_locations>>
       /\ (passport_image' # None /\ passport_image' # passport_image) =>
             /\ app_event'.op = "format_passport_photo"
             /\ app_event'.shown = "Formatted"
      ]_vars

\* C27 witness: an image is loaded and shown with its detected faces, no
\* passport photo has been made from it, and print_image refused to print
C27_Witness ==
    /\ current_image # None
    /\ processed_image # None
    /\ passport_image = None
    /\ app_event.op = "print_image"
    /\ app_event.shown = "No Passport Photo"

----------------------------------------------------------------------------
(* Claims about Settings and about file names *)

\* C29: default_settings is never modified by a Settings operation, so
\* after any sequence of set, add_recent_file, clear_recent_files and
\* import_settings, reset_to_defaults leaves every setting equal to its
\* initial default, recent_files empty in particular.
C29_ResetRestoresInitialDefaults ==
    /\ default_settings = InitialDefaults
    /\ settings_call.op = "reset_to_defaults" => settings = InitialDefaults

\* the number written by a sequence of decimal digits
RECURSIVE DecimalValue(_)
DecimalValue(digits) ==
    IF digits = <<>> THEN 0
    ELSE 10 * DecimalValue(SubSeq(digits, 1, Len(digits) - 1)) + digits[Len(digits)]

\* the path base_NNN.ext of counter n: at least three digits that write n
IsNumbered(file_path, n) ==
    /\ file_path.base_name = BaseName
    /\ file_path.extension = Extension
    /\ Len(file_path.number) >= 3
    /\ DecimalValue(file_path.number) = n

\* a file base_NNN.ext of counter n exists
NumberedExists(n) == \E file_path \in directory : IsNumbered(file_path, n)

AllNumberedExist == \A n \in 1..MaxCounter : NumberedExists(n)

\* what is returned: the path of the smallest counter without a file
ReturnsSmallestFree ==
    filename_pc = "returned" =>
        /\ filename_result.file_path # None
        /\ filename_result.file_path[1] \notin directory
        /\ \E n \in 1..MaxCounter :
              /\ IsNumbered(filename_result.file_path[1], n)
              /\ ~NumberedExists(n)
              /\ \A k \in 1..(n - 1) : NumberedExists(k)

Terminates == (filename_pc = "searching") ~> (filename_pc \in {"returned", "raised"})

\* C30 as stated: get_next_filename always terminates, returns base_NNN.ext
\* with the smallest counter n of 1..9999 for which no such file exists, never
\* a path that exists, and raises an error exactly when all the numbered
\* files exist.
C30_RaisesExactlyWhenFull ==
    /\ [](ReturnsSmallestFree /\ (filename_pc = "raised" => AllNumberedExist))
    /\ [](filename_pc = "returned" => ~AllNumberedExist)
    /\ Terminates

\* C30, amended: get_next_filename always terminates; it returns base_NNN.ext
\* with the smallest counter n for which no such file exists, never a path
\* that exists; it raises when all the numbered files exist, and also when
\* os.makedirs fails, in which case no file is looked for.
C30_RaisesWhenFullOrNoDirectory ==
    /\ [](ReturnsSmallestFree
          /\ (filename_pc = "raised" =>
                 \/ filename_result.error = "makedirs" /\ counter = 0
                 \/ /\ filename_result.error = "Too many files in directory"
                    /\ AllNumberedExist))
    /\ [](filename_pc = "returned" => ~AllNumberedExist)
    /\ Terminates

\* C30 witness: the first two numbered files exist, passport_photo_1.jpg
\* too, and the call returned passport_photo_003.jpg
C30_Witness ==
    /\ filename_pc = "returned"
    /\ counter = 3
    /\ filename_result.file_path[1].number = <<0, 0, 3>>
    /\ FilePath(BaseName, <<1>>, Extension) \in directory
    /\ NumberedFile(MaxCounter) \in directory

====
